---- MODULE Spec2Model ----
(***************************************************************************)
(* Email backend: provider selection, the local (database) provider, the   *)
(* Gmail provider, the facades that dispatch to them, and the monolithic   *)
(* EmailService that tries Gmail first and falls through to the local      *)
(* store.                                                                  *)
(***************************************************************************)
EXTENDS Integers, Sequences, FiniteSets, TLC

VARIABLES
    accounts,   \* accounts collection: per account the Google credential fields
    emails,     \* emails collection: function from stored _id to document
    nextId,     \* next ObjectId the store hands out
    now,        \* time of the last request; requests arrive one per tick
    outbox,     \* messages the last request handed to the Gmail API or to SMTP
    last,       \* the last request and what it returned to its caller
    prev,       \* the emails collection as the last request found it
    calls,      \* provider calls in flight that have read and not yet written
    attachments,    \* attachments collection: function from _id to document
    objects,    \* object storage: function from key to the bytes stored
    s3Configured,   \* S3Service.isConfigured of the running process
    refreshTokens,  \* refresh_tokens collection: set of documents
    accessTokens,   \* access tokens collection: set of documents
    authCalls,      \* AuthService calls in flight, per client session
    revoked     \* history: the tokens a logout, an expiry or a rotation ended

vars == <<accounts, emails, nextId, now, outbox, last, prev,
          calls, attachments, objects, s3Configured,
          refreshTokens, accessTokens, authCalls, revoked>>

\* a request that touches no token and no AuthService call
noAuth == UNCHANGED <<refreshTokens, accessTokens, authCalls, revoked>>

\* a request that touches neither the calls in flight nor the attachments
mailOnly == noAuth /\ UNCHANGED <<calls, attachments, objects, s3Configured>>

----------------------------------------------------------------------------
(* Bounds of the model *)

MaxEmails == 2      \* documents the emails collection may ever have held
MaxClock == 4       \* requests in one behaviour (each takes one tick)
MaxSerial == 3      \* tokens one behaviour of the session specification issues
MaxDay == 8         \* days one behaviour of the session specification spans

----------------------------------------------------------------------------
(* Accounts and addresses *)

Accounts == {"u1", "u2"}

\* Account.email (unique per account)
Email(a) == IF a = "u1" THEN "u1@x" ELSE "u2@x"

ExternalAddress == "ext@x"
UpperVariant == "U1@X"          \* u1's address written in capitals
DisplayForm == "Bob <u2@x>"     \* a header value with a display name

\* String.prototype.toLowerCase on the address alphabet of the model
toLowerCase(s) == IF s = UpperVariant THEN "u1@x" ELSE s

\* extractEmailAddress: the part between < and >, else the trimmed string
extractEmailAddress(s) == IF s = DisplayForm THEN "u2@x" ELSE s

\* accountModel.findOne({ email }): exact match on the stored address
findAccountByEmail(addr) == {a \in Accounts : Email(a) = addr}

Folders == {"inbox", "sent", "drafts", "trash", "archive", "starred"}

\* mongoose isValidObjectId: local ids are the positive integers of the model,
\* a Gmail message id (16 hex digits) is not one
GmailIds == {-1}
isValidObjectId(id) == id > 0

NoDate == 0

----------------------------------------------------------------------------
(* The emails collection (EmailModel) *)

Stored(id) == id \in DOMAIN emails

\* EmailModel.findById
findById(id) == IF Stored(id) THEN emails[id] ELSE "null"

\* EmailModel.save: a new document under a fresh _id
saveIn(store, id, doc) == [i \in DOMAIN store \cup {id} |-> IF i = id THEN doc ELSE store[i]]

\* EmailModel.deleteOne({ _id })
deleteOneIn(store, id) == [i \in DOMAIN store \ {id} |-> store[i]]

\* EmailModel.find(filter) / countDocuments(filter) for an account
OwnedBy(a) == {i \in DOMAIN emails : emails[i].accountId = a}

\* the Email document the send paths write
NewEmail(owner, from, to, cc, subject, body, isRead, folder, at, atts) ==
    [accountId |-> owner, from |-> from, to |-> to, cc |-> cc,
     subject |-> subject, body |-> body, isRead |-> isRead, readAt |-> NoDate,
     isStarred |-> FALSE, folder |-> folder, sentAt |-> at, attachments |-> atts]

----------------------------------------------------------------------------
(* Credentials and provider selection *)

\* getGmailClient: null unless the account has an access token on file
\* variant: a client for every account, whatever is on file
getGmailClient_NoCheck(a) == TRUE
getGmailClient(a) == accounts[a].googleAccessToken

\* GmailProviderService.isAvailable
Gmail_isAvailable(a) == getGmailClient(a)

\* DatabaseProviderService.isAvailable
Database_isAvailable(a) == TRUE

\* EmailProviderFactory.getProvider
getProvider(a) == IF Gmail_isAvailable(a) THEN "gmail" ELSE "database"

Result(op, user, id, status, val) ==
    [op |-> op, user |-> user, id |-> id, status |-> status, val |-> val]

----------------------------------------------------------------------------
(* DatabaseProviderService: the local provider.  Each operator gives what   *)
(* the call returned (ret: the value, or the HttpException it threw), the   *)
(* payload of a returned object and the collection after the call.  A       *)
(* `new Date()` taken during a request is the time of that request, now + 1.*)

Outcome(ret, val, store) == [ret |-> ret, val |-> val, emails |-> store]

NoVal == [none |-> TRUE]

Detail(e, readAt) ==
    [from |-> e.from, to |-> e.to, cc |-> e.cc, subject |-> e.subject, body |-> e.body,
     isRead |-> TRUE, isStarred |-> e.isStarred, folder |-> e.folder, readAt |-> readAt]

\* the ownership test of getEmailById / toggleStar / deleteEmail
\* variant: any stored document passes, whoever owns it
Database_owns_NoCheck(userId, emailId) == Stored(emailId)
Database_owns(userId, emailId) ==
    Stored(emailId) /\ emails[emailId].accountId = userId

\* the update getEmailById applies: only an unread document is written
\* variant: stamps readAt on every open
markReadOnOpen_Always(e) == [e EXCEPT !.isRead = TRUE, !.readAt = now + 1]
markReadOnOpen(e) ==
    IF e.isRead THEN e ELSE [e EXCEPT !.isRead = TRUE, !.readAt = now + 1]

Database_getEmailById(userId, emailId) ==
    IF ~isValidObjectId(emailId) THEN Outcome("null", NoVal, emails)
    ELSE IF ~Database_owns(userId, emailId) THEN Outcome("null", NoVal, emails)
    ELSE LET email == emails[emailId]
             after == markReadOnOpen(email)
         IN  Outcome("detail",
                     Detail(email, IF email.readAt # NoDate THEN email.readAt ELSE now + 1),
                     [emails EXCEPT ![emailId] = after])

\* filter { _id: emailId, accountId: userId } of markAsRead and moveToFolder
\* variant: filter { _id: emailId } without the accountId
Database_matches_IdOnly(userId, emailId) == Stored(emailId)
Database_matches(userId, emailId) ==
    Stored(emailId) /\ emails[emailId].accountId = userId

Database_markAsRead(userId, emailId, isRead) ==
    IF ~isValidObjectId(emailId) THEN Outcome("false", NoVal, emails)
    ELSE IF ~Database_matches(userId, emailId) THEN Outcome("true", NoVal, emails)
    ELSE Outcome("true", NoVal,
                 [emails EXCEPT ![emailId].isRead = isRead,
                                ![emailId].readAt = IF isRead THEN now + 1 ELSE NoDate])

\* the value toggleStar writes: the negation of the flag it read
\* variant: sets the flag instead of negating it
newStarredStatus_Set(e) == TRUE
newStarredStatus(e) == ~e.isStarred

Database_toggleStar(userId, emailId) ==
    IF ~isValidObjectId(emailId) THEN Outcome("BAD_REQUEST", NoVal, emails)
    ELSE IF ~Database_owns(userId, emailId) THEN Outcome("NOT_FOUND", NoVal, emails)
    ELSE LET v == newStarredStatus(emails[emailId])
         IN  Outcome("ok", [isStarred |-> v],
                     [emails EXCEPT ![emailId].isStarred = v])

\* deleteEmail on an owned document: trash it, or remove it when already trashed
\* variant: removes the document at once
deleteOwned_Hard(e, emailId) == deleteOneIn(emails, emailId)
deleteOwned(e, emailId) ==
    IF e.folder = "trash" THEN deleteOneIn(emails, emailId)
    ELSE [emails EXCEPT ![emailId].folder = "trash"]

Database_deleteEmail(userId, emailId) ==
    IF ~isValidObjectId(emailId) THEN Outcome("false", NoVal, emails)
    ELSE IF ~Database_owns(userId, emailId) THEN Outcome("false", NoVal, emails)
    ELSE Outcome("true", NoVal, deleteOwned(emails[emailId], emailId))

Database_moveToFolder(userId, emailId, folder) ==
    IF ~isValidObjectId(emailId) THEN Outcome("false", NoVal, emails)
    ELSE IF ~Database_matches(userId, emailId) THEN Outcome("true", NoVal, emails)
    ELSE Outcome("true", NoVal, [emails EXCEPT ![emailId].folder = folder])

\* filter of getEmailsByFolder: the starred flag for `starred`, else the folder
Database_folderFilter(e, folder) ==
    IF folder = "starred" THEN e.isStarred ELSE e.folder = folder

\* emailModel.find(filter) for getEmailsByFolder
Database_find(userId, folder) ==
    {i \in OwnedBy(userId) : Database_folderFilter(emails[i], folder)}

\* Array.prototype.sort by descending sentAt (stable: ties keep find() order)
RECURSIVE SortBySentAtDesc(_)
SortBySentAtDesc(S) ==
    IF S = {} THEN <<>>
    ELSE LET m == CHOOSE i \in S : \A j \in S :
                      \/ emails[i].sentAt > emails[j].sentAt
                      \/ emails[i].sentAt = emails[j].sentAt /\ i <= j
         IN  <<m>> \o SortBySentAtDesc(S \ {m})

\* variant: slice(0, limit), whatever the page
Slice_NoSkip(seq, skip, limit) ==
    [k \in 1..(IF Len(seq) < limit THEN Len(seq) ELSE limit) |-> seq[k]]

\* Array.prototype.slice(skip, skip + limit)
Slice(seq, skip, limit) ==
    [k \in 1..(IF Len(seq) <= skip THEN 0
               ELSE IF Len(seq) - skip < limit THEN Len(seq) - skip ELSE limit)
        |-> seq[skip + k]]

DefaultLimit == 50

Database_getEmailsByFolder(userId, folder, page, limit) ==
    LET skip == (page - 1) * limit
        found == Database_find(userId, folder)
        total == Cardinality(found)
    IN  [emails |-> Slice(SortBySentAtDesc(found), skip, limit),
         total |-> total, page |-> page, limit |-> limit,
         totalPages |-> (total + limit - 1) \div limit]

\* EmailService.getEmailsByFolder, local path: find, sort, slice, count
EmailService_getEmailsByFolder(userId, folder, page, limit) ==
    LET skip == (page - 1) * limit
        found == {i \in DOMAIN emails :
                     /\ emails[i].accountId = userId
                     /\ IF folder = "starred" THEN emails[i].isStarred
                        ELSE emails[i].folder = folder}
        sortedEmails == Slice(SortBySentAtDesc(found), skip, limit)
        total == Cardinality(found)
    IN  [emails |-> sortedEmails, total |-> total, page |-> page, limit |-> limit,
         totalPages |-> (total + limit - 1) \div limit]

\* ids on the first page of a listing with the default page size
Listed(userId, folder) ==
    LET l == Database_getEmailsByFolder(userId, folder, 1, DefaultLimit).emails
    IN  {l[k] : k \in 1..Len(l)}

\* variant: the inbox count takes read messages too
Database_getMailboxes_InboxTotal(userId) ==
    [f \in Folders |->
        Cardinality({i \in OwnedBy(userId) :
            IF f = "starred" THEN emails[i].isStarred ELSE emails[i].folder = f})]
\* getMailboxes: the live count of each of the six mailboxes
Database_getMailboxes(userId) ==
    [f \in Folders |->
        Cardinality({i \in OwnedBy(userId) :
            IF f = "inbox" THEN emails[i].folder = "inbox" /\ ~emails[i].isRead
            ELSE IF f = "starred" THEN emails[i].isStarred
            ELSE emails[i].folder = f})]

\* emailModel.countDocuments(filter): the documents equal to the filter on
\* each of its fields
countDocuments(filter) ==
    Cardinality({i \in DOMAIN emails :
        \A k \in DOMAIN filter : emails[i][k] = filter[k]})

\* EmailService.getMailboxes, local path: six countDocuments, six mailboxes
EmailService_getMailboxes(userId) ==
    LET inboxCount ==
            countDocuments([accountId |-> userId, folder |-> "inbox", isRead |-> FALSE])
        sentCount == countDocuments([accountId |-> userId, folder |-> "sent"])
        draftsCount == countDocuments([accountId |-> userId, folder |-> "drafts"])
        starredCount == countDocuments([accountId |-> userId, isStarred |-> TRUE])
        archiveCount == countDocuments([accountId |-> userId, folder |-> "archive"])
        trashCount == countDocuments([accountId |-> userId, folder |-> "trash"])
    IN  <<[id |-> "inbox", count |-> inboxCount],
          [id |-> "starred", count |-> starredCount],
          [id |-> "sent", count |-> sentCount],
          [id |-> "drafts", count |-> draftsCount],
          [id |-> "archive", count |-> archiveCount],
          [id |-> "trash", count |-> trashCount]>>

\* DatabaseProviderService.sendEmail / replyToEmail: not supported
Database_sendEmail(userId) == Outcome("NOT_IMPLEMENTED", NoVal, emails)
Database_replyToEmail(userId) == Outcome("NOT_IMPLEMENTED", NoVal, emails)

----------------------------------------------------------------------------
(* GmailProviderService: the remote provider.  The Gmail API is an external *)
(* collaborator: each call either succeeds or fails with an upstream status.*)

ApiOutcomes == {"ok", "404", "500"}

\* getEmailById: a failed messages.get is logged and null is returned
Gmail_getEmailById(userId, emailId, api) ==
    IF api = "ok" THEN Outcome("detail", NoVal, emails)
    ELSE Outcome("null", NoVal, emails)

\* markAsRead: false when messages.modify fails
Gmail_markAsRead(userId, emailId, isRead, api) ==
    Outcome(IF api = "ok" THEN "true" ELSE "false", NoVal, emails)

\* toggleStar: rethrows the upstream error
Gmail_toggleStar(userId, emailId, api) ==
    IF api = "ok" THEN Outcome("ok", [isStarred |-> TRUE], emails)
    ELSE Outcome("UpstreamError", NoVal, emails)

\* deleteEmail: what it returns when messages.trash fails
Gmail_deleteEmail(userId, emailId, api) ==
    Outcome(IF api = "ok" THEN "true" ELSE "false", NoVal, emails)

\* sendEmail: success with the message id, or the upstream error rethrown
Gmail_sendEmail(userId, api) ==
    IF api = "ok" THEN Outcome("success", NoVal, emails)
    ELSE Outcome("UpstreamError", NoVal, emails)

\* a message handed over for transmission
Transmission(via, from, to, cc) == [via |-> via, from |-> from, to |-> to, cc |-> cc]

----------------------------------------------------------------------------
(* The facades: resolve the provider, call it, map the result *)

Apply(r, res) ==
    /\ now < MaxClock
    /\ emails' = r.emails
    /\ prev' = emails
    /\ now' = now + 1
    /\ last' = res
    /\ outbox' = {}
    /\ UNCHANGED <<accounts, nextId>>
    /\ mailOnly

\* what InboxService.getEmailById makes of a null from the provider
Inbox_nullStatus == "NOT_FOUND"

InboxService_getEmailById(userId, emailId, api) ==
    LET r == IF getProvider(userId) = "gmail"
             THEN Gmail_getEmailById(userId, emailId, api)
             ELSE Database_getEmailById(userId, emailId)
    IN  Apply(r, Result("InboxService.getEmailById", userId, emailId,
                        IF r.ret = "null" THEN Inbox_nullStatus ELSE "ok",
                        [api |-> api, upstream |-> "none"]))

EmailActionsService_toggleStar(userId, emailId, api) ==
    LET r == IF getProvider(userId) = "gmail"
             THEN Gmail_toggleStar(userId, emailId, api)
             ELSE Database_toggleStar(userId, emailId)
    IN  Apply(r, Result("EmailActionsService.toggleStar", userId, emailId, r.ret, r.val))

\* the boolean the provider returns is not looked at
EmailActionsService_markAsRead(userId, emailId, isRead, api) ==
    LET r == IF getProvider(userId) = "gmail"
             THEN Gmail_markAsRead(userId, emailId, isRead, api)
             ELSE Database_markAsRead(userId, emailId, isRead)
    IN  Apply(r, Result("EmailActionsService.markAsRead", userId, emailId, "ok",
                        [isRead |-> isRead, api |-> api, upstream |-> "none"]))

EmailActionsService_deleteEmail(userId, emailId, api) ==
    LET r == IF getProvider(userId) = "gmail"
             THEN Gmail_deleteEmail(userId, emailId, api)
             ELSE Database_deleteEmail(userId, emailId)
    IN  Apply(r, Result("EmailActionsService.deleteEmail", userId, emailId,
                        IF r.ret = "true" THEN "ok" ELSE "Error",
                        [gmailFailed |-> getProvider(userId) = "gmail" /\ api # "ok"]))

\* IEmailProvider.moveToFolder of the local provider, called for the account
Provider_moveToFolder(userId, emailId, folder) ==
    /\ getProvider(userId) = "database"
    /\ LET r == Database_moveToFolder(userId, emailId, folder)
       IN  Apply(r, Result("moveToFolder", userId, emailId,
                           IF r.ret = "true" THEN "ok" ELSE "false", [folder |-> folder]))

\* EmailProviderFactory.getProvider as a call of its own
GetProvider(userId) ==
    /\ now < MaxClock
    /\ now' = now + 1
    /\ prev' = emails
    /\ last' = Result("getProvider", userId, 0, "ok",
                      [provider |-> getProvider(userId),
                       isAvailable |-> IF getProvider(userId) = "gmail"
                                       THEN Gmail_isAvailable(userId)
                                       ELSE Database_isAvailable(userId)])
    /\ outbox' = {}
    /\ UNCHANGED <<accounts, emails, nextId>>
    /\ mailOnly

----------------------------------------------------------------------------
(* EmailService: one service that tries the Gmail API when the account has  *)
(* a client and otherwise, or after a swallowed Gmail failure, works on the *)
(* local store.                                                             *)

\* the lookup every local path starts with: findById, then the ownership test;
\* findById throws a CastError on an id that is no ObjectId
EmailService_lookup(userId, emailId) ==
    IF ~isValidObjectId(emailId) THEN "INTERNAL_SERVER_ERROR"
    ELSE IF ~Stored(emailId) THEN "NOT_FOUND"
    ELSE IF emails[emailId].accountId # userId THEN "UNAUTHORIZED"
    ELSE "found"

\* the status getEmailById throws for a document of another account
EmailService_notOwnerStatus == "UNAUTHORIZED"

EmailService_getEmailById_local(userId, emailId) ==
    IF ~isValidObjectId(emailId) THEN Outcome("NOT_FOUND", NoVal, emails)
    ELSE IF ~Stored(emailId) THEN Outcome("NOT_FOUND", NoVal, emails)
    ELSE IF emails[emailId].accountId # userId
         THEN Outcome(EmailService_notOwnerStatus, NoVal, emails)
    ELSE LET email == emails[emailId]
             after == markReadOnOpen(email)
         IN  Outcome("ok",
                     Detail(email, IF email.readAt # NoDate THEN email.readAt ELSE now + 1),
                     [emails EXCEPT ![emailId] = after])

EmailService_getEmailById_result(userId, emailId, api) ==
    IF getGmailClient(userId) /\ api = "ok" THEN Outcome("ok", NoVal, emails)
    ELSE IF getGmailClient(userId) /\ api = "404"
         THEN Outcome("NOT_FOUND", NoVal, emails)
    ELSE IF getGmailClient(userId) /\ ~isValidObjectId(emailId)
         THEN Outcome("UpstreamError", NoVal, emails)
    ELSE EmailService_getEmailById_local(userId, emailId)

EmailService_getEmailById(userId, emailId, api) ==
    LET r == EmailService_getEmailById_result(userId, emailId, api)
    IN  Apply(r, Result("EmailService.getEmailById", userId, emailId, r.ret,
                        [api |-> api,
                         upstream |-> IF r.ret = "UpstreamError" THEN api ELSE "none"]))

EmailService_toggleStar(userId, emailId, api) ==
    LET found == EmailService_lookup(userId, emailId)
        r == IF getGmailClient(userId) /\ api = "ok"
             THEN Outcome("ok", [isStarred |-> TRUE], emails)
             ELSE IF found # "found" THEN Outcome(found, NoVal, emails)
             ELSE Outcome("ok", [isStarred |-> ~emails[emailId].isStarred],
                          [emails EXCEPT ![emailId].isStarred = ~emails[emailId].isStarred])
    IN  Apply(r, Result("EmailService.toggleStar", userId, emailId, r.ret, r.val))

\* the read timestamp is written only when marking read a document without one
EmailService_markAsRead(userId, emailId, isRead, api) ==
    LET found == EmailService_lookup(userId, emailId)
        stamps == found = "found" /\ isRead /\ emails[emailId].readAt = NoDate
        r == IF getGmailClient(userId) /\ api = "ok"
             THEN Outcome("ok", NoVal, emails)
             ELSE IF found # "found" THEN Outcome(found, NoVal, emails)
             ELSE Outcome("ok", NoVal,
                          [emails EXCEPT ![emailId].isRead = isRead,
                                         ![emailId].readAt =
                                             IF stamps THEN now + 1 ELSE emails[emailId].readAt])
    IN  Apply(r, Result("EmailService.markAsRead", userId, emailId, r.ret,
                        [isRead |-> isRead]))

\* what deleteEmail does once messages.trash failed: the failure is logged
\* and the call goes on to the local store
EmailService_deleteEmail_result(userId, emailId, api) ==
    LET found == EmailService_lookup(userId, emailId)
    IN  IF getGmailClient(userId) /\ api = "ok"
        THEN Outcome("ok", NoVal, emails)
        ELSE IF found # "found" THEN Outcome(found, NoVal, emails)
        ELSE Outcome("ok", NoVal, deleteOwned(emails[emailId], emailId))

EmailService_deleteEmail(userId, emailId, api) ==
    LET r == EmailService_deleteEmail_result(userId, emailId, api)
    IN  Apply(r, Result("EmailService.deleteEmail", userId, emailId, r.ret,
                        [gmailFailed |-> getGmailClient(userId) /\ api # "ok"]))

----------------------------------------------------------------------------
(* Linking attachments to a message (AttachmentService, AttachmentModel) *)

\* attachmentModel.updateOne({ _id: attachmentId }, { emailId })
linkOne(atts, attachmentId, emailId) ==
    IF isValidObjectId(attachmentId) /\ attachmentId \in DOMAIN atts
    THEN [atts EXCEPT ![attachmentId].emailId = emailId]
    ELSE atts

\* AttachmentService.linkAttachmentsToEmail: one awaited updateOne per id, in
\* order; fails: the ids whose updateOne throws
RECURSIVE linkAttachmentsToEmail(_, _, _, _)
linkAttachmentsToEmail(atts, attachmentIds, emailId, fails) ==
    IF attachmentIds = <<>> THEN [ret |-> "ok", attachments |-> atts]
    ELSE IF Head(attachmentIds) \in fails THEN [ret |-> "Error", attachments |-> atts]
    ELSE linkAttachmentsToEmail(linkOne(atts, Head(attachmentIds), emailId),
                                Tail(attachmentIds), emailId, fails)

\* AttachmentModel.findByEmailId, as getAttachmentsByEmailId returns it
getAttachmentsByEmailId(emailId) ==
    {a \in DOMAIN attachments : attachments[a].emailId = emailId}

\* data.attachments in the order given
RECURSIVE AttachmentIds(_)
AttachmentIds(S) ==
    IF S = {} THEN <<>>
    ELSE LET a == CHOOSE x \in S : \A y \in S : x <= y
         IN  <<a>> \o AttachmentIds(S \ {a})

----------------------------------------------------------------------------
(* Sending *)

SendData(to, cc, subject, body, atts) ==
    [to |-> to, cc |-> cc, subject |-> subject, body |-> body, attachments |-> atts]

\* the two documents the local path of sendEmail writes
SentCopy(userId, data) ==
    NewEmail(userId, Email(userId), <<data.to>>, data.cc, data.subject, data.body,
             TRUE, "sent", now + 1, data.attachments)
\* variant: an inbox copy stored as read
InboxCopy_Read(userId, recipient, data) ==
    NewEmail(recipient, Email(userId), <<data.to>>, data.cc, data.subject, data.body,
             TRUE, "inbox", now + 1, data.attachments)
InboxCopy(userId, recipient, data) ==
    NewEmail(recipient, Email(userId), <<data.to>>, data.cc, data.subject, data.body,
             FALSE, "inbox", now + 1, data.attachments)

\* accounts that get an inbox copy: accountModel.findOne({ email: data.to })
SendRecipients(data) == findAccountByEmail(data.to)

DbFailures == {"none", "sent", "inbox"}

\* variant: the sent copy is taken back when the inbox write throws
EmailService_sendEmail_store_Rollback(userId, data, dbFail) ==
    IF dbFail # "none" THEN emails
    ELSE LET rcpt == findAccountByEmail(data.to)
             afterSent == saveIn(emails, nextId,
                                 NewEmail(userId, Email(userId), <<data.to>>, data.cc,
                                          data.subject, data.body, TRUE, "sent",
                                          now + 1, data.attachments))
         IN  IF rcpt = {} THEN afterSent
             ELSE saveIn(afterSent, nextId + 1,
                         NewEmail(CHOOSE r \in rcpt : TRUE, Email(userId), <<data.to>>,
                                  data.cc, data.subject, data.body, FALSE, "inbox",
                                  now + 1, data.attachments))
\* the collection after the local path, when the write named by dbFail throws
EmailService_sendEmail_store(userId, data, dbFail) ==
    LET rcpt == SendRecipients(data)
        afterSent == IF dbFail = "sent" THEN emails
                     ELSE saveIn(emails, nextId, SentCopy(userId, data))
    IN  IF dbFail = "none" /\ rcpt # {}
        THEN saveIn(afterSent, nextId + 1,
                    InboxCopy(userId, CHOOSE r \in rcpt : TRUE, data))
        ELSE afterSent

\* the attachments collection after the local path: the supplied attachments
\* are linked to the sent copy once it is saved, then to the inbox copy
EmailService_sendEmail_links(userId, data, dbFail) ==
    LET attachmentIds == AttachmentIds(data.attachments)
        afterSent == IF dbFail = "sent" \/ data.attachments = {} THEN attachments
                     ELSE linkAttachmentsToEmail(attachments, attachmentIds,
                                                 nextId, {}).attachments
    IN  IF dbFail = "none" /\ SendRecipients(data) # {} /\ data.attachments # {}
        THEN linkAttachmentsToEmail(afterSent, attachmentIds, nextId + 1, {}).attachments
        ELSE afterSent

\* what sendEmail reports once messages.send failed: the failure is logged
\* and the call goes on to the local path
EmailService_sendEmail_status(userId, data, dbFail) ==
    IF dbFail = "sent" \/ (dbFail = "inbox" /\ SendRecipients(data) # {})
    THEN "INTERNAL_SERVER_ERROR" ELSE "ok"

EmailService_sendEmail(userId, data, api, smtpOk, dbFail) ==
    LET viaGmail == getGmailClient(userId) /\ api = "ok"
        store == IF viaGmail THEN emails
                 ELSE EmailService_sendEmail_store(userId, data, dbFail)
        written == Cardinality(DOMAIN store) - Cardinality(DOMAIN emails)
    IN  /\ now < MaxClock
        /\ nextId + written - 1 <= MaxEmails
        /\ dbFail = "inbox" => SendRecipients(data) # {}
        /\ viaGmail => dbFail = "none" /\ ~smtpOk
        /\ emails' = store
        /\ nextId' = nextId + written
        /\ now' = now + 1
        /\ prev' = emails
        /\ outbox' = IF viaGmail
                     THEN {Transmission("gmail", Email(userId), <<data.to>>, data.cc)}
                     ELSE IF smtpOk
                     THEN {Transmission("smtp", Email(userId), <<data.to>>, <<>>)}
                     ELSE {}
        /\ last' = Result("EmailService.sendEmail", userId, 0,
                          IF viaGmail THEN "ok"
                          ELSE EmailService_sendEmail_status(userId, data, dbFail),
                          [data |-> data,
                           dbFail |-> dbFail,
                           via |-> IF viaGmail THEN "gmail" ELSE "local",
                           gmailFailed |-> getGmailClient(userId) /\ api # "ok"])
        /\ attachments' = IF viaGmail THEN attachments
                          ELSE EmailService_sendEmail_links(userId, data, dbFail)
        /\ UNCHANGED <<accounts, calls, objects, s3Configured>>
        /\ noAuth

\* ComposeService.sendEmail: whatever the selected provider's sendEmail does
ComposeService_sendEmail(userId, data, api) ==
    LET r == IF getProvider(userId) = "gmail" THEN Gmail_sendEmail(userId, api)
             ELSE Database_sendEmail(userId)
    IN  /\ now < MaxClock
        /\ now' = now + 1
        /\ prev' = emails
        /\ outbox' = IF r.ret = "success"
                     THEN {Transmission("gmail", Email(userId), <<data.to>>, <<>>)}
                     ELSE {}
        /\ last' = Result("ComposeService.sendEmail", userId, 0,
                          IF r.ret = "success" THEN "ok" ELSE r.ret,
                          [data |-> data,
                           via |-> getProvider(userId),
                           gmailFailed |-> getProvider(userId) = "gmail" /\ api # "ok"])
        /\ UNCHANGED <<accounts, emails, nextId>>
        /\ mailOnly

----------------------------------------------------------------------------
(* Replying *)

Range(q) == {q[k] : k \in 1..Len(q)}

\* Set insertion order: Array.from(new Set(...)) keeps the first of equal strings
RECURSIVE Unique(_)
Unique(q) ==
    IF q = <<>> THEN <<>>
    ELSE LET front == Unique(SubSeq(q, 1, Len(q) - 1))
             x == q[Len(q)]
         IN  IF x \in Range(front) THEN front ELSE Append(front, x)

\* split(',') then extractEmailAddress(trim) of every part, empty parts dropped
ParseList(q) ==
    SelectSeq([k \in 1..Len(q) |-> extractEmailAddress(q[k])], LAMBDA x : x # "")

NotSelf(addr, userEmail) ==
    addr # "" /\ toLowerCase(addr) # toLowerCase(extractEmailAddress(userEmail))

\* EmailService.replyEmail, recipient resolution
EmailService_replyRecipients(original, userEmail, replyAll) ==
    LET originalFromEmail == extractEmailAddress(original.from)
        sender == IF NotSelf(originalFromEmail, userEmail)
                  THEN <<originalFromEmail>> ELSE <<>>
        others == SelectSeq(ParseList(original.to), LAMBDA x : NotSelf(x, userEmail))
    IN  IF replyAll THEN Unique(sender \o others) ELSE sender

\* GmailProviderService.replyToEmail, recipient resolution: the To and the Cc
\* header of the reply
Gmail_replyHeaders(original, userEmail, replyAll) ==
    LET toList == [k \in 1..Len(original.to) |-> extractEmailAddress(original.to[k])]
        ccList == [k \in 1..Len(original.cc) |-> extractEmailAddress(original.cc[k])]
    IN  [to |-> <<extractEmailAddress(original.from)>>,
         cc |-> IF replyAll
                THEN SelectSeq(toList \o ccList, LAMBDA x : x # userEmail)
                ELSE <<>>]

\* subject of a reply: prefixed unless it already starts with Re:
Subjects == {"Hi", "Yo"}
ReplySubject(subject) == IF subject \in Subjects THEN "Re: " \o subject ELSE subject

\* the headers of the message replied to
Headers(m) == [from |-> m.from, to |-> m.to, cc |-> m.cc]

\* the inbox copies replyEmail writes, one per recipient that is an account
RECURSIVE ReplyInboxCopies(_, _, _, _, _, _)
ReplyInboxCopies(store, id, userId, recipients, subject, body) ==
    IF recipients = <<>> THEN store
    ELSE LET rcpt == findAccountByEmail(extractEmailAddress(Head(recipients)))
         IN  IF rcpt = {}
             THEN ReplyInboxCopies(store, id, userId, Tail(recipients), subject, body)
             ELSE ReplyInboxCopies(
                      saveIn(store, id,
                             NewEmail(CHOOSE r \in rcpt : TRUE, Email(userId),
                                      <<extractEmailAddress(Head(recipients))>>, <<>>,
                                      subject, body, FALSE, "inbox", now + 1, {})),
                      id + 1, userId, Tail(recipients), subject, body)

\* the message a Gmail account is replying to, as messages.get returns it
RemoteOriginals ==
    {[from |-> f, to |-> h.to, cc |-> h.cc, subject |-> "Hi", body |-> "Hello"] :
        f \in {"u1@x", "ext@x", DisplayForm},
        h \in {[to |-> <<"u1@x">>, cc |-> <<>>],
               [to |-> <<UpperVariant, "u2@x">>, cc |-> <<"ext@x">>]}}

\* EmailService.replyEmail.  apiGet is the outcome of messages.get made by
\* getEmailById, apiSend that of messages.send; remote is what messages.get
\* returns when it succeeds.
EmailService_replyEmail(userId, emailId, body, replyAll, apiGet, apiSend, remote) ==
    LET gmail == getGmailClient(userId)
        got == EmailService_getEmailById_result(userId, emailId, apiGet)
        original == IF gmail /\ apiGet = "ok" THEN remote ELSE emails[emailId]
        recipients == EmailService_replyRecipients(original, Email(userId), replyAll)
        viaGmail == gmail /\ apiSend = "ok"
        subject == ReplySubject(original.subject)
        store == IF got.ret # "ok" \/ recipients = <<>> \/ viaGmail THEN got.emails
                 ELSE ReplyInboxCopies(
                          saveIn(got.emails, nextId,
                                 NewEmail(userId, Email(userId), recipients, <<>>,
                                          subject, body, TRUE, "sent", now + 1, {})),
                          nextId + 1, userId, recipients, subject, body)
        written == Cardinality(DOMAIN store) - Cardinality(DOMAIN emails)
    IN  /\ now < MaxClock
        /\ nextId + written - 1 <= MaxEmails
        /\ now' = now + 1
        /\ prev' = emails
        /\ emails' = store
        /\ nextId' = nextId + written
        /\ outbox' = IF got.ret = "ok" /\ recipients # <<>> /\ viaGmail
                     THEN {Transmission("gmail", Email(userId), recipients, <<>>)}
                     ELSE {}
        /\ last' = Result("EmailService.replyEmail", userId, emailId,
                          IF got.ret # "ok" THEN got.ret
                          ELSE IF recipients = <<>> THEN "BAD_REQUEST"
                          ELSE "ok",
                          [replyAll |-> replyAll,
                           resolved |-> got.ret = "ok",
                           original |-> IF got.ret = "ok" THEN Headers(original) ELSE NoVal,
                           recipients |-> IF got.ret = "ok" THEN recipients ELSE <<>>,
                           gmailFailed |-> gmail /\ got.ret = "ok" /\ recipients # <<>>
                                           /\ apiSend # "ok"])
        /\ UNCHANGED accounts
        /\ mailOnly

\* ComposeService.replyToEmail: whatever the selected provider's replyToEmail
\* does.  api is the outcome of the Gmail calls, remote the original message.
ComposeService_replyToEmail(userId, emailId, replyAll, api, remote) ==
    LET gmail == getProvider(userId) = "gmail"
        headers == Gmail_replyHeaders(remote, Email(userId), replyAll)
        sent == gmail /\ api = "ok"
    IN  /\ now < MaxClock
        /\ now' = now + 1
        /\ prev' = emails
        /\ outbox' = IF sent
                     THEN {Transmission("gmail", Email(userId),
                                                    headers.to, headers.cc)}
                     ELSE {}
        /\ last' = Result("ComposeService.replyToEmail", userId, emailId,
                          IF sent THEN "ok"
                          ELSE IF gmail THEN "UpstreamError"
                          ELSE Database_replyToEmail(userId).ret,
                          [replyAll |-> replyAll,
                           resolved |-> sent,
                           original |-> IF sent THEN Headers(remote) ELSE NoVal,
                           recipients |-> IF sent THEN headers.to \o headers.cc ELSE <<>>,
                           gmailFailed |-> gmail /\ api # "ok"])
        /\ UNCHANGED <<accounts, emails, nextId>>
        /\ mailOnly

----------------------------------------------------------------------------
(* Google sign-in (AuthService.findOrCreateGoogleUser): the access token is *)
(* always stored, the refresh token only when Google hands one out          *)

GoogleLogin(a, withRefresh) ==
    /\ accounts' = [accounts EXCEPT
                       ![a].googleAccessToken = TRUE,
                       ![a].googleRefreshToken = withRefresh \/ accounts[a].googleRefreshToken]
    /\ accounts' # accounts
    /\ now < MaxClock
    /\ now' = now + 1
    /\ prev' = emails
    /\ last' = Result("googleLogin", a, 0, "ok", NoVal)
    /\ outbox' = {}
    /\ UNCHANGED <<emails, nextId>>
    /\ mailOnly

----------------------------------------------------------------------------
(* Mailbox lifecycle on the local store: accounts without a Google link     *)

NoCredential == [googleAccessToken |-> FALSE, googleRefreshToken |-> FALSE]

\* the two requests that may be in flight together, both yet to be made
----------------------------------------------------------------------------
(* Sessions: AuthService (loginUser, refreshToken, logout) and JwtAuthGuard. *)
(* Each call is a sequence of steps, one per awaited write to a collection; *)
(* the calls of different client sessions interleave between the steps.     *)

Sessions == {"s1", "s2"}

REFRESH_TOKEN_EXPIRY_DAYS == 7

\* a signed JWT: its payload's userId and what makes two signatures differ
Jwt(userId, serial) == [userId |-> userId, serial |-> serial]
NoJwt == Jwt("none", 0)

\* a refresh_tokens document
RefreshTokenDoc(id, token, accountId, expiresAt) ==
    [id |-> id, token |-> token, accountId |-> accountId, expiresAt |-> expiresAt]
NoDoc == RefreshTokenDoc(0, 0, "none", 0)

\* an access tokens document
AccessTokenDoc(accessToken, accountId) ==
    [accessToken |-> accessToken, accountId |-> accountId]

\* the two token collections, as a call found them
Tokens == [refreshTokens |-> refreshTokens, accessTokens |-> accessTokens]
NoTokens == [refreshTokens |-> {}, accessTokens |-> {}]

IdleAuthCall ==
    [op |-> "none", pc |-> "idle", userId |-> "none", token |-> 0,
     rotate |-> FALSE, tokenDoc |-> NoDoc, accessToken |-> NoJwt,
     staleFor |-> {}, before |-> NoTokens, wasRevoked |-> FALSE,
     at |-> 0]

NoRevoked == [refresh |-> {}, access |-> {}, expired |-> {}, rotated |-> {}]

InitAuthIdle ==
    /\ refreshTokens = {}
    /\ accessTokens = {}
    /\ authCalls = [s \in Sessions |-> IdleAuthCall]
    /\ revoked = NoRevoked

\* refreshTokenModel.findOne({ token })
findRefreshToken(token) ==
    IF \E d \in refreshTokens : d.token = token
    THEN CHOOSE d \in refreshTokens : d.token = token
    ELSE NoDoc

\* new Date() > tokenDoc.expiresAt
\* variant: a token never expires
isExpired_Never(tokenDoc) == FALSE
isExpired(tokenDoc) == now > tokenDoc.expiresAt

\* expiresAt.setDate(expiresAt.getDate() + REFRESH_TOKEN_EXPIRY_DAYS)
newExpiresAt == now + REFRESH_TOKEN_EXPIRY_DAYS

\* what a finished call leaves in `last`
AuthResult(call, status, refreshToken) ==
    Result(call.op, call.userId, call.token, status,
           [rotate |-> call.rotate, tokenDoc |-> call.tokenDoc,
            accessToken |-> call.accessToken, refreshToken |-> refreshToken,
            before |-> call.before, wasRevoked |-> call.wasRevoked,
            at |-> call.at])

\* the call of session s returns (or throws) and the session is idle again
Return(s, call, status, refreshToken) ==
    /\ last' = AuthResult(call, status, refreshToken)
    /\ authCalls' = [authCalls EXCEPT ![s] = IdleAuthCall]

authOnly ==
    UNCHANGED <<accounts, emails, now, outbox, prev, calls,
                attachments, objects, s3Configured>>

\* the tokens a call issues after a logout of its account that ran while the
\* call was in flight are tokens of a call that started before the logout
StaleAccess(call) ==
    IF call.userId \in call.staleFor THEN {call.accessToken} ELSE {}

\* loginUser: accountModel.findOne({ email }), validatePassword and
\* generateAccessToken
LoginBegin(s, email, passwordOk) ==
    LET found == findAccountByEmail(email)
        userId == CHOOSE a \in found : TRUE
        call == [IdleAuthCall EXCEPT !.op = "loginUser", !.before = Tokens]
    IN  /\ authCalls[s].pc = "idle"
        /\ nextId <= MaxSerial
        /\ IF found = {}
           THEN Return(s, call, "NOT_FOUND", 0) /\ UNCHANGED nextId
           ELSE IF ~passwordOk
           THEN Return(s, [call EXCEPT !.userId = userId], "BAD_REQUEST", 0)
                /\ UNCHANGED nextId
           ELSE /\ authCalls' =
                       [authCalls EXCEPT ![s] =
                           [call EXCEPT !.userId = userId, !.token = nextId,
                                        !.accessToken = Jwt(userId, nextId),
                                        !.pc = "login.saveRefresh"]]
                /\ nextId' = nextId + 1
                /\ UNCHANGED last
        /\ UNCHANGED <<refreshTokens, accessTokens, revoked>>
        /\ authOnly

\* loginUser: generateRefreshToken and refreshTokenModel.save
LoginSaveRefresh(s) ==
    LET call == authCalls[s]
    IN  /\ call.pc = "login.saveRefresh"
        /\ refreshTokens' = refreshTokens \cup
               {RefreshTokenDoc(call.token, call.token, call.userId, newExpiresAt)}
        /\ authCalls' = [authCalls EXCEPT ![s].pc = "login.saveAccess"]
        /\ UNCHANGED <<accessTokens, revoked, nextId, last>>
        /\ authOnly

\* loginUser: accessTokenModel.save and return
LoginSaveAccess(s) ==
    LET call == authCalls[s]
    IN  /\ call.pc = "login.saveAccess"
        /\ accessTokens' = accessTokens \cup
               {AccessTokenDoc(call.accessToken, call.userId)}
        /\ revoked' = [revoked EXCEPT !.access = @ \cup StaleAccess(call)]
        /\ Return(s, call, "ok", call.token)
        /\ UNCHANGED <<refreshTokens, nextId>>
        /\ authOnly

\* refreshToken: refreshTokenModel.findOne({ token }) and the expiry check
RefreshBegin(s, refreshToken, rotateToken) ==
    LET tokenDoc == findRefreshToken(refreshToken)
        call == [IdleAuthCall EXCEPT
                    !.op = "refreshToken", !.token = refreshToken,
                    !.rotate = rotateToken, !.tokenDoc = tokenDoc,
                    !.userId = tokenDoc.accountId, !.before = Tokens,
                    !.at = now,
                    !.wasRevoked = refreshToken \in revoked.refresh
                                       \cup revoked.expired \cup revoked.rotated]
    IN  /\ authCalls[s].pc = "idle"
        /\ IF tokenDoc = NoDoc
           THEN Return(s, call, "UNAUTHORIZED", 0)
           ELSE /\ authCalls' =
                       [authCalls EXCEPT ![s] =
                           [call EXCEPT !.pc = IF isExpired(tokenDoc)
                                               THEN "refresh.deleteExpired"
                                               ELSE "refresh.saveAccess"]]
                /\ UNCHANGED last
        /\ UNCHANGED <<refreshTokens, accessTokens, revoked, nextId>>
        /\ authOnly

\* refreshTokenModel.deleteMany({ _id })
deleteById(id) == {d \in refreshTokens : d.id # id}

\* refreshToken: deleteMany({ _id: tokenDoc._id }) of an expired token, then
\* Unauthorized
RefreshDeleteExpired(s) ==
    LET call == authCalls[s]
    IN  /\ call.pc = "refresh.deleteExpired"
        /\ refreshTokens' = deleteById(call.tokenDoc.id)
        /\ revoked' = [revoked EXCEPT !.expired = @ \cup {call.token}]
        /\ Return(s, call, "UNAUTHORIZED", 0)
        /\ UNCHANGED <<accessTokens, nextId>>
        /\ authOnly

\* refreshToken: accountModel.findOne({ _id: tokenDoc.accountId }) (accounts
\* are never removed), generateAccessToken and accessTokenModel.save; without
\* rotation the call returns
RefreshSaveAccess(s) ==
    LET call == authCalls[s]
        issued == [call EXCEPT !.accessToken = Jwt(call.userId, nextId)]
    IN  /\ call.pc = "refresh.saveAccess"
        /\ nextId <= MaxSerial
        /\ IF call.userId \notin Accounts
           THEN /\ Return(s, call, "NOT_FOUND", 0)
                /\ UNCHANGED <<accessTokens, revoked, nextId>>
           ELSE /\ accessTokens' = accessTokens \cup
                       {AccessTokenDoc(issued.accessToken, issued.userId)}
                /\ revoked' = [revoked EXCEPT !.access = @ \cup StaleAccess(issued)]
                /\ nextId' = nextId + 1
                /\ IF call.rotate
                   THEN /\ authCalls' = [authCalls EXCEPT ![s] =
                                            [issued EXCEPT !.pc = "refresh.deleteOld"]]
                        /\ UNCHANGED last
                   ELSE Return(s, issued, "ok", 0)
        /\ UNCHANGED refreshTokens
        /\ authOnly

\* refreshToken with rotation: deleteMany({ _id: tokenDoc._id })
RefreshDeleteOld(s) ==
    LET call == authCalls[s]
    IN  /\ call.pc = "refresh.deleteOld"
        /\ refreshTokens' = deleteById(call.tokenDoc.id)
        /\ authCalls' = [authCalls EXCEPT ![s].pc = "refresh.saveNew"]
        /\ UNCHANGED <<accessTokens, revoked, nextId, last>>
        /\ authOnly

\* refreshToken with rotation: refreshTokenModel.save of the new token, return
RefreshSaveNew(s) ==
    LET call == authCalls[s]
        newRefreshToken == call.accessToken.serial
    IN  /\ call.pc = "refresh.saveNew"
        /\ refreshTokens' = refreshTokens \cup
               {RefreshTokenDoc(newRefreshToken, newRefreshToken, call.userId,
                                newExpiresAt)}
        /\ revoked' = [revoked EXCEPT !.rotated = @ \cup {call.token}]
        /\ Return(s, call, "ok", newRefreshToken)
        /\ UNCHANGED <<accessTokens, nextId>>
        /\ authOnly

\* JwtAuthGuard.canActivate: the token is in the access tokens collection
canActivate(token) == \E r \in accessTokens : r.accessToken = token

\* POST logout (behind JwtAuthGuard) and logout's
\* refreshTokenModel.deleteMany({ accountId })
LogoutBegin(s, token) ==
    LET call == [IdleAuthCall EXCEPT !.op = "logout", !.userId = token.userId,
                                     !.accessToken = token,
                                     !.before = Tokens,
                                     !.pc = "logout.deleteAccess"]
    IN  /\ authCalls[s].pc = "idle"
        /\ canActivate(token)
        /\ refreshTokens' = {d \in refreshTokens : d.accountId # token.userId}
        /\ authCalls' = [authCalls EXCEPT ![s] = call]
        /\ UNCHANGED <<accessTokens, revoked, nextId, last>>
        /\ authOnly

\* logout: accessTokenModel.deleteMany({ accountId }) and return; from here
\* on the tokens issued to the account so far, and those of its calls still
\* in flight, are tokens from before the logout
LogoutDeleteAccess(s) ==
    LET call == authCalls[s]
        left == {r \in accessTokens : r.accountId # call.userId}
    IN  /\ call.pc = "logout.deleteAccess"
        /\ accessTokens' = left
        /\ revoked' = [revoked EXCEPT
               !.refresh = @ \cup {d.token : d \in {x \in refreshTokens :
                                                       x.accountId = call.userId}}]
        /\ last' = AuthResult(call, "ok", 0)
        /\ authCalls' =
               [t \in Sessions |->
                   IF t = s THEN IdleAuthCall
                   ELSE IF authCalls[t].pc = "idle" THEN authCalls[t]
                   ELSE [authCalls[t] EXCEPT !.staleFor = @ \cup {call.userId}]]
        /\ UNCHANGED <<refreshTokens, nextId>>
        /\ authOnly

\* a request behind JwtAuthGuard
Guarded(token) ==
    /\ last' = Result("canActivate", token.userId, 0,
                      IF canActivate(token) THEN "ok" ELSE "UNAUTHORIZED",
                      [rotate |-> FALSE, tokenDoc |-> NoDoc, accessToken |-> token,
                       refreshToken |-> 0, before |-> NoTokens,
                       wasRevoked |-> token \in revoked.access])
    /\ last' # last
    /\ UNCHANGED <<refreshTokens, accessTokens, authCalls, revoked, nextId>>
    /\ authOnly

\* days go by
Pass ==
    \E d \in {REFRESH_TOKEN_EXPIRY_DAYS, REFRESH_TOKEN_EXPIRY_DAYS + 1} :
        /\ now + d <= MaxDay
        /\ now' = now + d
        /\ UNCHANGED <<accounts, emails, nextId, outbox, last, prev>>
        /\ mailOnly

Callers == {"c1", "c2"}
IdleCall == [op |-> "none", user |-> "none", id |-> 0, pc |-> "idle",
             sawStarred |-> FALSE, sawFolder |-> "none", status |-> "none",
             isStarred |-> FALSE]
NoCalls == [c \in Callers |-> IdleCall]
Idle == Result("none", "none", 0, "ok", NoVal)

Init ==
    /\ accounts = [a \in Accounts |-> NoCredential]
    /\ emails = <<>>
    /\ nextId = 1
    /\ now = 0
    /\ outbox = {}
    /\ last = Idle
    /\ prev = <<>>
    /\ calls = NoCalls
    /\ attachments = <<>>
    /\ objects = <<>>
    /\ s3Configured = FALSE
    /\ InitAuthIdle

EmailIds == (1..MaxEmails) \cup GmailIds
LifecycleData == {SendData(Email("u2"), <<>>, "Hi", "Hello", {})}
MoveTargets == {"inbox", "archive", "trash", "starred"}

Send == \E u \in Accounts, d \in LifecycleData :
            EmailService_sendEmail(u, d, "ok", FALSE, "none")
Open == \E u \in Accounts, id \in EmailIds : InboxService_getEmailById(u, id, "ok")
Star == \E u \in Accounts, id \in EmailIds : EmailActionsService_toggleStar(u, id, "ok")
MarkRead == \E u \in Accounts, id \in EmailIds, v \in BOOLEAN :
                EmailActionsService_markAsRead(u, id, v, "ok")
Delete == \E u \in Accounts, id \in EmailIds : EmailActionsService_deleteEmail(u, id, "ok")
Move == \E u \in Accounts, id \in EmailIds, f \in MoveTargets : Provider_moveToFolder(u, id, f)
LegacyOpen == \E u \in Accounts, id \in EmailIds : EmailService_getEmailById(u, id, "ok")
LegacyStar == \E u \in Accounts, id \in EmailIds : EmailService_toggleStar(u, id, "ok")
LegacyMarkRead == \E u \in Accounts, id \in EmailIds, v \in BOOLEAN :
                      EmailService_markAsRead(u, id, v, "ok")
LegacyDelete == \E u \in Accounts, id \in EmailIds : EmailService_deleteEmail(u, id, "ok")

Next ==
    \/ Send \/ Open \/ Star \/ MarkRead \/ Delete \/ Move
    \/ LegacyOpen \/ LegacyStar \/ LegacyMarkRead \/ LegacyDelete

Spec == Init /\ [][Next]_vars

----------------------------------------------------------------------------
(* Composing: accounts may link Google; sending, replying and deleting go   *)
(* through the Gmail API, SMTP and the store, each of which may fail        *)

MaxCompose == 2     \* requests in one behaviour of the composing specification

ComposeData ==
    {SendData(to, cc, "Hi", "Hello", {}) :
        to \in {Email("u1"), Email("u2"), ExternalAddress},
        cc \in {<<>>, <<Email("u2")>>}}

SendOutcomes == {"ok", "500"}
DefaultRemote == CHOOSE m \in RemoteOriginals : TRUE

\* the Gmail API is only called for an account with a Gmail client
ApiCalled(u, api, remote) ==
    ~getGmailClient(u) => api = "ok" /\ remote = DefaultRemote

CredentialStates ==
    {[googleAccessToken |-> FALSE, googleRefreshToken |-> FALSE],
     [googleAccessToken |-> TRUE, googleRefreshToken |-> FALSE],
     [googleAccessToken |-> TRUE, googleRefreshToken |-> TRUE]}

InitCompose ==
    /\ accounts \in {[a \in Accounts |-> IF a = "u1" THEN c ELSE NoCredential] :
                        c \in CredentialStates}
    /\ emails = <<>>
    /\ nextId = 1
    /\ now = 0
    /\ outbox = {}
    /\ last = Idle
    /\ prev = <<>>
    /\ calls = NoCalls
    /\ attachments = <<>>
    /\ objects = <<>>
    /\ s3Configured = FALSE
    /\ InitAuthIdle

Link == now < MaxCompose /\ \E a \in Accounts, withRefresh \in BOOLEAN : GoogleLogin(a, withRefresh)
Select == now < MaxCompose /\ \E u \in Accounts : GetProvider(u)
ServiceSend == now < MaxCompose /\ \E u \in Accounts, d \in ComposeData, api \in SendOutcomes,
                  smtpOk \in BOOLEAN, dbFail \in DbFailures :
                   /\ ApiCalled(u, api, DefaultRemote)
                   /\ EmailService_sendEmail(u, d, api, smtpOk, dbFail)
ComposeSend == now < MaxCompose /\ \E u \in Accounts, d \in ComposeData, api \in SendOutcomes :
                   /\ ApiCalled(u, api, DefaultRemote)
                   /\ ComposeService_sendEmail(u, d, api)
ServiceReply == now < MaxCompose /\ \E u \in Accounts, id \in EmailIds, replyAll \in BOOLEAN,
                   apiGet \in ApiOutcomes, apiSend \in SendOutcomes,
                   remote \in RemoteOriginals :
                    /\ ApiCalled(u, apiGet, remote)
                    /\ ApiCalled(u, apiSend, remote)
                    /\ apiGet # "ok" => remote = DefaultRemote
                    /\ EmailService_replyEmail(u, id, "Thanks", replyAll, apiGet, apiSend, remote)
ComposeReply == now < MaxCompose /\ \E u \in Accounts, id \in EmailIds, replyAll \in BOOLEAN,
                   api \in SendOutcomes, remote \in RemoteOriginals :
                    /\ ApiCalled(u, api, remote)
                    /\ api # "ok" => remote = DefaultRemote
                    /\ ComposeService_replyToEmail(u, id, replyAll, api, remote)
ServiceDelete == now < MaxCompose /\ \E u \in Accounts, id \in EmailIds, api \in SendOutcomes :
                     /\ ApiCalled(u, api, DefaultRemote)
                     /\ EmailService_deleteEmail(u, id, api)
ActionsDelete == now < MaxCompose /\ \E u \in Accounts, id \in EmailIds, api \in SendOutcomes :
                     /\ ApiCalled(u, api, DefaultRemote)
                     /\ EmailActionsService_deleteEmail(u, id, api)

NextCompose ==
    \/ Link \/ Select \/ ServiceSend \/ ComposeSend
    \/ ServiceReply \/ ComposeReply \/ ServiceDelete \/ ActionsDelete

SpecCompose == InitCompose /\ [][NextCompose]_vars

----------------------------------------------------------------------------
(* Properties *)

\* an account with a refresh or an access credential on file
HasCredential(a) == accounts[a].googleAccessToken \/ accounts[a].googleRefreshToken

\* the documents the last request added, and whether it left the others alone
Added == DOMAIN emails \ DOMAIN prev
OthersKept == \A i \in DOMAIN prev : i \in DOMAIN emails /\ emails[i] = prev[i]

\* what a local send must leave behind: one sent copy of the sender's, and
\* one unread inbox copy of the recipient's when the address is an account's
LocalSendEffect ==
    LET A == last.user
        d == last.val.data
        B == findAccountByEmail(d.to)
        sent == {i \in Added : emails[i].folder = "sent"}
        inbox == {i \in Added : emails[i].folder = "inbox"}
    IN  /\ OthersKept
        /\ Added = sent \cup inbox
        /\ Cardinality(sent) = 1
        /\ \A i \in sent : /\ emails[i].accountId = A
                           /\ emails[i].subject = d.subject
                           /\ emails[i].body = d.body
        /\ Cardinality(inbox) = IF B = {} THEN 0 ELSE 1
        /\ \A i \in inbox : /\ emails[i].accountId \in B
                            /\ ~emails[i].isRead
                            /\ emails[i].subject = d.subject
                            /\ emails[i].body = d.body

Target == prev[last.id]
OnOwn == last.id \in DOMAIN prev /\ Target.accountId = last.user
OnForeign == last.id \in DOMAIN prev /\ Target.accountId # last.user

\* every document but the one the last request named is as it was
RestKept ==
    \A i \in DOMAIN prev \ {last.id} : i \in DOMAIN emails /\ emails[i] = prev[i]

DeleteOps == {"EmailActionsService.deleteEmail", "EmailService.deleteEmail"}
GetOps == {"InboxService.getEmailById", "EmailService.getEmailById"}

\* C2: deleteEmail by the owner on a message outside trash only sets its
\* folder to trash; on a message already in trash it removes the document; a
\* getEmailById of an id that is not (or no longer) stored reports not-found.
C2_TwoPhaseDelete ==
    /\ (last.op \in DeleteOps /\ OnOwn)
           => /\ last.status = "ok"
              /\ RestKept
              /\ DOMAIN emails \subseteq DOMAIN prev
              /\ IF Target.folder # "trash"
                 THEN /\ last.id \in DOMAIN emails
                      /\ emails[last.id] = [Target EXCEPT !.folder = "trash"]
                 ELSE last.id \notin DOMAIN emails
    /\ (last.op \in GetOps /\ last.id \notin DOMAIN prev)
           => last.status = "NOT_FOUND" /\ emails = prev

\* a getEmailById of an id the store once handed out and has removed since
C2_GoneAfterSecondDelete ==
    /\ last.op \in GetOps
    /\ last.id \in 1..(nextId - 1)
    /\ last.id \notin DOMAIN prev
    /\ last.status = "NOT_FOUND"

\* C3: getProvider returns the Gmail provider exactly when the account has a
\* refresh or an access credential on file at the time of the call, else the
\* local provider; the local provider is available for every account.
C3_ProviderSelection ==
    /\ last.op = "getProvider"
           => /\ (last.val.provider = "gmail") <=> HasCredential(last.user)
              /\ (last.val.provider = "database") <=> ~HasCredential(last.user)
              /\ last.val.isAvailable
    /\ \A a \in Accounts : Database_isAvailable(a)

\* u2 starts without a credential: Gmail is selected once it has linked Google
C3_GmailAfterLink ==
    /\ last.op = "getProvider"
    /\ last.user = "u2"
    /\ last.val.provider = "gmail"

\* C4: getEmailById by the owner on an unread local message sets its read
\* flag and stamps readAt with the time of the call, changing nothing else;
\* on a message already read it changes neither (nor anything else).
C4_ReadOnOpen ==
    (last.op \in GetOps /\ OnOwn)
        => /\ last.status = "ok"
           /\ IF Target.isRead
              THEN emails = prev
              ELSE /\ RestKept
                   /\ DOMAIN emails = DOMAIN prev
                   /\ emails[last.id] = [Target EXCEPT !.isRead = TRUE, !.readAt = now]
                   /\ emails[last.id].readAt # NoDate

\* the second of two successive opens: the first stamped readAt one tick ago
C4_SecondOpen ==
    /\ last.op \in GetOps
    /\ OnOwn
    /\ Target.isRead
    /\ Target.readAt = now - 1
    /\ emails[last.id].readAt = now - 1

\* C5: toggleStar by the owner flips the starred flag and nothing else, and a
\* second toggleStar would give back the collection as it was before the
\* first; the `starred` listing of an account holds exactly its messages
\* whose flag is set, whatever their folder.
C5_StarToggle ==
    /\ (last.op = "EmailActionsService.toggleStar" /\ OnOwn)
           => /\ last.status = "ok"
              /\ RestKept
              /\ DOMAIN emails = DOMAIN prev
              /\ emails[last.id] = [Target EXCEPT !.isStarred = ~Target.isStarred]
              /\ last.val.isStarred = emails[last.id].isStarred
              /\ Database_toggleStar(last.user, last.id).emails = prev
    /\ \A a \in Accounts : \A i \in DOMAIN emails :
           i \in Listed(a, "starred") <=> (emails[i].accountId = a /\ emails[i].isStarred)

\* the second toggle of a trashed message: the flag is back to unset and the
\* message has left the starred listing
C5_ToggledBackInTrash ==
    /\ last.op = "EmailActionsService.toggleStar"
    /\ OnOwn
    /\ Target.isStarred
    /\ Target.folder = "trash"
    /\ last.id \in DOMAIN emails
    /\ ~emails[last.id].isStarred
    /\ last.id \notin Listed(last.user, "starred")

ReplyOps == {"EmailService.replyEmail", "ComposeService.replyToEmail"}

\* a reply that found its original and went on to resolve its recipients
Resolved == last.op \in ReplyOps /\ last.val.resolved

\* the reply failed for want of recipients, stored no message and sent none
NoValidRecipients ==
    /\ last.status = "BAD_REQUEST"
    /\ DOMAIN emails = DOMAIN prev
    /\ outbox = {}

\* C6: a reply with replyAll = false goes to exactly the original sender's
\* address x, unless x is the caller's own address: then the recipient set is
\* empty, the reply fails as "no valid recipients", and nothing is sent or
\* stored.
C6_ReplyToSender ==
    (Resolved /\ ~last.val.replyAll)
        => LET x == extractEmailAddress(last.val.original.from)
           IN  IF x = Email(last.user)
               THEN NoValidRecipients
               ELSE Range(last.val.recipients) = {x}

\* the addresses reply-all must reach: sender, To list and Cc list of the
\* original without the caller, compared without regard to case
ReplyAllExpected ==
    {toLowerCase(extractEmailAddress(h)) :
        h \in {last.val.original.from} \cup Range(last.val.original.to)
                \cup Range(last.val.original.cc)}
      \ {toLowerCase(Email(last.user))}

\* C7: a reply with replyAll = true goes to the union of the original's
\* sender, To list and Cc list minus the caller, compared and de-duplicated
\* without regard to case; when that set is empty the reply fails as "no
\* valid recipients".
C7_ReplyAll ==
    (Resolved /\ last.val.replyAll)
        => LET r == last.val.recipients
           IN  IF ReplyAllExpected = {}
               THEN NoValidRecipients
               ELSE /\ {toLowerCase(r[k]) : k \in 1..Len(r)} = ReplyAllExpected
                    /\ \A j, k \in 1..Len(r) :
                           toLowerCase(r[j]) = toLowerCase(r[k]) => j = k

\* C8 (as stated): getEmailById on a message of another account fails as
\* Unauthorized, and on an id that is no valid local id as not-found, on
\* every path; in both cases no message is modified.
C8_ForeignIsUnauthorized ==
    /\ (last.op \in GetOps /\ OnForeign)
           => last.status = "UNAUTHORIZED" /\ emails = prev
    /\ (last.op \in GetOps /\ ~isValidObjectId(last.id))
           => last.status = "NOT_FOUND" /\ emails = prev

\* C8 (amended): getEmailById on a message of another account fails as
\* Unauthorized through EmailService.getEmailById and as not-found through
\* InboxService.getEmailById (the local provider returns no message); an id
\* that is no valid local id fails as not-found on both; in every one of
\* these cases no message is modified.
C8_ForeignOrInvalid ==
    /\ (last.op = "EmailService.getEmailById" /\ OnForeign)
           => last.status = "UNAUTHORIZED" /\ emails = prev
    /\ (last.op = "InboxService.getEmailById" /\ OnForeign)
           => last.status = "NOT_FOUND" /\ emails = prev
    /\ (last.op \in GetOps /\ ~isValidObjectId(last.id))
           => last.status = "NOT_FOUND" /\ emails = prev

\* another account's unread message opened through the provider path
C8_ForeignThroughInbox ==
    /\ last.op = "InboxService.getEmailById"
    /\ OnForeign
    /\ ~Target.isRead
    /\ last.status = "NOT_FOUND"

ProviderOps ==
    {"InboxService.getEmailById", "EmailActionsService.markAsRead",
     "EmailActionsService.toggleStar", "EmailActionsService.deleteEmail",
     "moveToFolder"}

\* C9: a provider operation (getEmailById, markAsRead, toggleStar,
\* deleteEmail, moveToFolder) called by an account on a message of another
\* account leaves every message present and unchanged; an account's listings
\* hold only its own messages and its mailbox counts count only those.
C9_OwnerScoped ==
    /\ (last.op \in ProviderOps /\ OnForeign) => emails = prev
    /\ \A a \in Accounts : \A f \in Folders :
           /\ \A i \in Listed(a, f) : emails[i].accountId = a
           /\ Database_getEmailsByFolder(a, f, 1, DefaultLimit).total
                  <= Cardinality(OwnedBy(a))
           /\ Database_getMailboxes(a)[f] <= Cardinality(OwnedBy(a))

\* u1 asks the provider to delete a message of u2, which stays as it was
C9_ForeignDeleteRefused ==
    /\ last.op = "EmailActionsService.deleteEmail"
    /\ OnForeign
    /\ last.id \in DOMAIN emails
    /\ emails[last.id] = Target
    /\ last.status = "Error"

WriteOps ==
    {"EmailService.sendEmail", "ComposeService.sendEmail",
     "EmailService.replyEmail", "ComposeService.replyToEmail",
     "EmailService.deleteEmail", "EmailActionsService.deleteEmail"}

\* C10: a send, reply or delete whose call to the remote API failed is never
\* reported as a success: the caller gets an explicit failure.
C10_RemoteFailureSurfaces ==
    (last.op \in WriteOps /\ last.val.gmailFailed) => last.status # "ok"

\* C11: the two writes of a local send are not atomic: when the sender's sent
\* copy has been written and the write of the recipient's inbox copy fails,
\* the send fails and the sent copy stays in the sender's messages, with no
\* inbox copy and every other message as it was.
C11_SentCopyRemains ==
    (last.op = "EmailService.sendEmail" /\ last.val.dbFail = "inbox")
        => /\ last.status = "INTERNAL_SERVER_ERROR"
           /\ OthersKept
           /\ Cardinality(Added) = 1
           /\ \A i \in Added : /\ emails[i].accountId = last.user
                               /\ emails[i].folder = "sent"
                               /\ emails[i].subject = last.val.data.subject
                               /\ emails[i].body = last.val.data.body

\* a send to u2's address by u1 whose inbox write failed
C11_InboxWriteFailed ==
    /\ last.op = "EmailService.sendEmail"
    /\ last.val.dbFail = "inbox"
    /\ last.user = "u1"
    /\ findAccountByEmail(last.val.data.to) = {"u2"}
    /\ \E i \in Added : emails[i].folder = "sent" /\ emails[i].accountId = "u1"
    /\ last.status = "INTERNAL_SERVER_ERROR"

----------------------------------------------------------------------------
(* Provider calls in flight together.  toggleStar and deleteEmail of the    *)
(* local provider await findById and, later, updateOne or deleteOne: other  *)
(* requests run between the two.  moveToFolder is a single updateOne.       *)

Finished(c, status, isStarred) ==
    [calls[c] EXCEPT !.pc = "done", !.status = status, !.isStarred = isStarred]

\* toggleStar up to and including its findById
BeginToggleStar(c, userId, emailId) ==
    LET call == [calls[c] EXCEPT !.op = "toggleStar", !.user = userId, !.id = emailId]
    IN  /\ calls[c].pc = "idle"
        /\ calls' = [calls EXCEPT ![c] =
               IF ~isValidObjectId(emailId)
               THEN [call EXCEPT !.pc = "done", !.status = "BAD_REQUEST"]
               ELSE IF ~Database_owns(userId, emailId)
               THEN [call EXCEPT !.pc = "done", !.status = "NOT_FOUND"]
               ELSE [call EXCEPT !.pc = "toggleStar.write",
                                 !.sawStarred = emails[emailId].isStarred]]
        /\ UNCHANGED <<accounts, emails, nextId, now, outbox, last, prev,
                       attachments, objects, s3Configured>>
        /\ noAuth

\* its updateOne({ _id }, { isStarred: newStarredStatus }) and return
EndToggleStar(c) ==
    LET v == newStarredStatus([isStarred |-> calls[c].sawStarred])
        id == calls[c].id
    IN  /\ calls[c].pc = "toggleStar.write"
        /\ emails' = IF Stored(id) THEN [emails EXCEPT ![id].isStarred = v] ELSE emails
        /\ calls' = [calls EXCEPT ![c] = Finished(c, "ok", v)]
        /\ UNCHANGED <<accounts, nextId, now, outbox, last, prev,
                       attachments, objects, s3Configured>>
        /\ noAuth

\* deleteEmail up to and including its findById
BeginDeleteEmail(c, userId, emailId) ==
    LET call == [calls[c] EXCEPT !.op = "deleteEmail", !.user = userId, !.id = emailId]
    IN  /\ calls[c].pc = "idle"
        /\ calls' = [calls EXCEPT ![c] =
               IF ~isValidObjectId(emailId) \/ ~Database_owns(userId, emailId)
               THEN [call EXCEPT !.pc = "done", !.status = "false"]
               ELSE [call EXCEPT !.pc = "deleteEmail.write",
                                 !.sawFolder = emails[emailId].folder]]
        /\ UNCHANGED <<accounts, emails, nextId, now, outbox, last, prev,
                       attachments, objects, s3Configured>>
        /\ noAuth

\* its deleteOne or updateOne, chosen by the folder it read, and return
EndDeleteEmail(c) ==
    LET id == calls[c].id
    IN  /\ calls[c].pc = "deleteEmail.write"
        /\ emails' = IF Stored(id) THEN deleteOwned([folder |-> calls[c].sawFolder], id)
                     ELSE emails
        /\ calls' = [calls EXCEPT ![c] = Finished(c, "true", FALSE)]
        /\ UNCHANGED <<accounts, nextId, now, outbox, last, prev,
                       attachments, objects, s3Configured>>
        /\ noAuth

\* moveToFolder, whole
CallMoveToFolder(c, userId, emailId, folder) ==
    LET r == Database_moveToFolder(userId, emailId, folder)
    IN  /\ calls[c].pc = "idle"
        /\ emails' = r.emails
        /\ calls' = [calls EXCEPT ![c] =
               [calls[c] EXCEPT !.op = "moveToFolder", !.user = userId, !.id = emailId,
                                !.pc = "done", !.status = r.ret]]
        /\ UNCHANGED <<accounts, nextId, now, outbox, last, prev,
                       attachments, objects, s3Configured>>
        /\ noAuth

\* a message of u1's as sends, stars and deletes leave it
RaceMessages ==
    {[NewEmail("u1", Email("u2"), <<Email("u1")>>, <<>>, "Hi", "Hello", FALSE, f, 1, {})
         EXCEPT !.isStarred = s] : f \in {"inbox", "trash"}, s \in BOOLEAN}

InitRace ==
    /\ accounts = [a \in Accounts |-> NoCredential]
    /\ emails \in {saveIn(<<>>, 1, m) : m \in RaceMessages}
    /\ nextId = 2
    /\ now = 1
    /\ outbox = {}
    /\ last = Idle
    /\ prev = <<>>
    /\ calls = NoCalls
    /\ attachments = <<>>
    /\ objects = <<>>
    /\ s3Configured = FALSE
    /\ InitAuthIdle

ToggleRead == \E c \in Callers, u \in Accounts, id \in EmailIds : BeginToggleStar(c, u, id)
ToggleWrite == \E c \in Callers : EndToggleStar(c)
DeleteRead == \E c \in Callers, u \in Accounts, id \in EmailIds : BeginDeleteEmail(c, u, id)
DeleteWrite == \E c \in Callers : EndDeleteEmail(c)
MoveWhole == \E c \in Callers, u \in Accounts, id \in EmailIds, f \in MoveTargets :
                 CallMoveToFolder(c, u, id, f)

NextRace == ToggleRead \/ ToggleWrite \/ DeleteRead \/ DeleteWrite \/ MoveWhole

SpecRace == InitRace /\ [][NextRace]_vars

\* C12: a stored message is removed only by a delete request of its owner,
\* and at the moment it is removed its folder is trash, also when delete and
\* move requests on the message interleave.
C12_RemovedOnlyFromTrash ==
    [][\A i \in DOMAIN emails :
           i \notin DOMAIN emails'
               => /\ emails[i].folder = "trash"
                  /\ \E c \in Callers : /\ calls[c].op = "deleteEmail"
                                        /\ calls[c].user = emails[i].accountId
                                        /\ calls[c].id = i
                                        /\ calls[c].pc = "deleteEmail.write"
                                        /\ calls'[c].pc = "done"]_vars

\* C13: every stored message has one owning account, which never changes,
\* and one folder value of the folder vocabulary; `starred` is never stored
\* as a folder, being only a filter on the starred flag.
C13_OneOwnerOneFolder ==
    \A i \in DOMAIN emails :
        /\ emails[i].accountId \in Accounts
        /\ i \in DOMAIN prev => emails[i].accountId = prev[i].accountId
        /\ emails[i].folder \in Folders \ {"starred"}

\* the account's messages a mailbox counts
Counted(a, f) ==
    {i \in DOMAIN emails :
        /\ emails[i].accountId = a
        /\ CASE f = "inbox" -> emails[i].folder = "inbox" /\ ~emails[i].isRead
             [] f = "starred" -> emails[i].isStarred
             [] OTHER -> emails[i].folder = f}

\* C14: for a local account getMailboxes gives exactly the six mailboxes;
\* inbox counts the account's unread inbox messages, starred its messages
\* with the flag set in any folder, every other mailbox its messages in that
\* folder; a local send from A to B's address raises A's sent count by one
\* and B's inbox count by one.
C14_MailboxCounts ==
    /\ [](\A a \in Accounts :
            LET boxes == EmailService_getMailboxes(a)
            IN  /\ DOMAIN Database_getMailboxes(a) =
                       {"inbox", "starred", "sent", "drafts", "archive", "trash"}
                /\ Len(boxes) = 6
                /\ {boxes[k].id : k \in 1..6} = DOMAIN Database_getMailboxes(a)
                /\ \A f \in DOMAIN Database_getMailboxes(a) :
                       Database_getMailboxes(a)[f] = Cardinality(Counted(a, f))
                /\ \A k \in 1..6 :
                       boxes[k].count = Cardinality(Counted(a, boxes[k].id)))
    /\ [][(/\ last'.op = "EmailService.sendEmail"
           /\ last'.status = "ok"
           /\ last'.val.via = "local")
              => \A a \in Accounts :
                   /\ a = last'.user =>
                        Database_getMailboxes(a)'["sent"]
                            = Database_getMailboxes(a)["sent"] + 1
                   /\ a \in findAccountByEmail(last'.val.data.to) =>
                        Database_getMailboxes(a)'["inbox"]
                            = Database_getMailboxes(a)["inbox"] + 1]_vars

\* u1 has sent to u2: one in u1's sent, one unread in u2's inbox, while a
\* starred message of u2's sits in its trash
C14_CountsAfterSend ==
    /\ last.op = "EmailService.sendEmail"
    /\ last.user = "u1"
    /\ last.status = "ok"
    /\ Database_getMailboxes("u1")["sent"] >= 1
    /\ Database_getMailboxes("u2")["inbox"] >= 1
    /\ Cardinality(Added) = 2

----------------------------------------------------------------------------
(* Listing a folder page by page.  The collection is drawn from the stores *)
(* of at most MaxListed documents of two accounts, with equal and distinct *)
(* sent timestamps; a request lists one page of u1's or u2's folder.  A    *)
(* listing writes nothing, so any later listing sees the same collection:  *)
(* one request per behaviour covers them all.                              *)

MaxListed == 2

SentTimes == {1, 2}
ListPages == {1, 2, 3}
ListLimits == {1, 2}
ListFolders == {"inbox", "trash", "starred"}

ListMessages ==
    {[NewEmail(a, Email("u2"), <<Email(a)>>, <<>>, "Hi", "Hello", TRUE, f, t, {})
         EXCEPT !.isStarred = s] :
        a \in Accounts, f \in {"inbox", "trash"}, t \in SentTimes, s \in BOOLEAN}

InitList ==
    /\ accounts = [a \in Accounts |-> NoCredential]
    /\ \E n \in 0..MaxListed : emails \in [1..n -> ListMessages]
    /\ nextId = MaxListed + 1
    /\ now = 0
    /\ outbox = {}
    /\ last = Idle
    /\ prev = <<>>
    /\ calls = NoCalls
    /\ attachments = <<>>
    /\ objects = <<>>
    /\ s3Configured = FALSE
    /\ InitAuthIdle

\* a listing request: reads only
Listing(op, userId, folder, res) ==
    /\ last = Idle
    /\ now' = now + 1
    /\ last' = Result(op, userId, 0, "ok", [folder |-> folder, res |-> res])
    /\ prev' = emails
    /\ UNCHANGED <<accounts, emails, nextId, outbox>>
    /\ mailOnly

ProviderList ==
    \E a \in Accounts, f \in ListFolders, page \in ListPages, limit \in ListLimits :
        Listing("Database.getEmailsByFolder", a, f,
                Database_getEmailsByFolder(a, f, page, limit))

ServiceList ==
    \E a \in Accounts, f \in ListFolders, page \in ListPages, limit \in ListLimits :
        Listing("EmailService.getEmailsByFolder", a, f,
                EmailService_getEmailsByFolder(a, f, page, limit))

NextList == ProviderList \/ ServiceList

SpecList == InitList /\ [][NextList]_vars

ListOps == {"Database.getEmailsByFolder", "EmailService.getEmailsByFolder"}

\* the account's messages a listing of the folder is about
Matching(a, f) ==
    {i \in DOMAIN emails :
        /\ emails[i].accountId = a
        /\ IF f = "starred" THEN emails[i].isStarred ELSE emails[i].folder = f}

\* page p of the listing the last request asked for
PageOf(p) ==
    IF last.op = "Database.getEmailsByFolder"
    THEN Database_getEmailsByFolder(last.user, last.val.folder, p, last.val.res.limit)
    ELSE EmailService_getEmailsByFolder(last.user, last.val.folder, p, last.val.res.limit)

\* C15: for a local account, page >= 1 and limit >= 1, getEmailsByFolder
\* returns the elements at offsets (page-1)*limit .. (page-1)*limit+limit-1
\* of the matching messages in descending order of sent timestamp, total is
\* the number of matching messages, totalPages is ceil(total / limit), and
\* pages 1..totalPages list every matching message exactly once.
C15_Pagination ==
    last.op \in ListOps =>
        LET r == last.val.res
            M == Matching(last.user, last.val.folder)
            skip == (r.page - 1) * r.limit
            Slots == {<<p, k>> : p \in 1..r.totalPages, k \in 1..r.limit}
            Filled == {s \in Slots : s[2] <= Len(PageOf(s[1]).emails)}
            At(s) == PageOf(s[1]).emails[s[2]]
            Offset(s) == (s[1] - 1) * r.limit + s[2] - 1
        IN  /\ r = PageOf(r.page)
            /\ r.total = Cardinality(M)
            /\ r.totalPages * r.limit >= r.total
            /\ (r.totalPages - 1) * r.limit < r.total \/ r.totalPages = 0
            /\ Len(r.emails) =
                   (IF r.total <= skip THEN 0
                    ELSE IF r.total - skip < r.limit THEN r.total - skip ELSE r.limit)
            /\ {Offset(s) : s \in Filled} = 0..(r.total - 1)
            /\ \A i \in M : Cardinality({s \in Filled : At(s) = i}) = 1
            /\ \A s \in Filled : At(s) \in M
            /\ \A s, t \in Filled :
                   Offset(s) < Offset(t) => emails[At(s)].sentAt >= emails[At(t)].sentAt

\* the second page of a listing of two matching messages, one per page
C15_SecondPage ==
    /\ last.op \in ListOps
    /\ last.val.res.page = 2
    /\ last.val.res.limit = 1
    /\ last.val.res.total = 2
    /\ last.val.res.totalPages = 2
    /\ Len(last.val.res.emails) = 1
    /\ emails[last.val.res.emails[1]].sentAt < emails[PageOf(1).emails[1]].sentAt

----------------------------------------------------------------------------
(* Attachments (AttachmentService, S3Service, AttachmentModel).  A buffer   *)
(* is a sequence of bytes; a base64 string is the sequence of its sextets,  *)
(* with B64Pad for `=`.  file.size is what multer reports: a large upload   *)
(* is given by its size and the first bytes of its buffer.  Every caller    *)
(* of uploadAttachment leaves emailId out.                                   *)

MaxBytes == 3
MaxAttachments == 1

\* 10 * 1024 * 1024 bytes
MAX_DB_FILE_SIZE == 10485760

B64Pad == 64

\* Buffer.prototype.toString('base64')
RECURSIVE toBase64(_)
toBase64(buf) ==
    IF Len(buf) = 0 THEN <<>>
    ELSE IF Len(buf) = 1
    THEN <<buf[1] \div 4, (buf[1] % 4) * 16, B64Pad, B64Pad>>
    ELSE IF Len(buf) = 2
    THEN <<buf[1] \div 4, (buf[1] % 4) * 16 + buf[2] \div 16,
           (buf[2] % 16) * 4, B64Pad>>
    ELSE <<buf[1] \div 4, (buf[1] % 4) * 16 + buf[2] \div 16,
           (buf[2] % 16) * 4 + buf[3] \div 64, buf[3] % 64>>
         \o toBase64(SubSeq(buf, 4, Len(buf)))

\* variant: only whole groups of four sextets are decoded
RECURSIVE fromBase64_WholeGroups(_)
fromBase64_WholeGroups(str) ==
    IF Len(str) < 4 \/ str[3] = B64Pad \/ str[4] = B64Pad THEN <<>>
    ELSE <<str[1] * 4 + str[2] \div 16, (str[2] % 16) * 16 + str[3] \div 4,
           (str[3] % 4) * 64 + str[4]>>
         \o fromBase64_WholeGroups(SubSeq(str, 5, Len(str)))

\* Buffer.from(str, 'base64')
RECURSIVE fromBase64(_)
fromBase64(str) ==
    IF Len(str) < 4 THEN <<>>
    ELSE IF str[3] = B64Pad THEN <<str[1] * 4 + str[2] \div 16>>
    ELSE IF str[4] = B64Pad
    THEN <<str[1] * 4 + str[2] \div 16, (str[2] % 16) * 16 + str[3] \div 4>>
    ELSE <<str[1] * 4 + str[2] \div 16, (str[2] % 16) * 16 + str[3] \div 4,
           (str[3] % 4) * 64 + str[4]>>
         \o fromBase64(SubSeq(str, 5, Len(str)))

\* emailId of an attachment not linked to a message yet
NoEmailId == 0

\* S3Service.isAvailable: fixed by the configuration the process started with
S3_isAvailable == s3Configured

\* AttachmentModel.findByIdString finds a document
foundByIdString(id) == isValidObjectId(id) /\ id \in DOMAIN attachments

UploadOutcome(ret, id, atts, objs) ==
    [ret |-> ret, id |-> id, attachments |-> atts, objects |-> objs]

\* variant: no size limit for inline storage
tooLargeForDatabase_Never(file) == FALSE

\* the size check of uploadAttachment
tooLargeForDatabase(file) == ~S3_isAvailable /\ file.size > MAX_DB_FILE_SIZE

\* AttachmentService.uploadAttachment(file); putOk: the PutObject call succeeds
AttachmentService_uploadAttachment(file, putOk) ==
    LET refused == UploadOutcome("BadRequest", 0, attachments, objects)
        id == Len(attachments) + 1
        key == Cardinality(DOMAIN objects) + 1
        record(storageType, s3Key, s3Bucket, fileContent) ==
            [filename |-> <<id, file.originalname>>,
             originalName |-> file.originalname, size |-> file.size,
             s3Key |-> s3Key, s3Bucket |-> s3Bucket, uploadedAt |-> now + 1,
             storageType |-> storageType, fileContent |-> fileContent,
             emailId |-> NoEmailId]
    IN  IF ~file.present THEN refused
        ELSE IF Len(file.buffer) = 0 THEN refused
        ELSE IF file.originalname = "" THEN refused
        ELSE IF tooLargeForDatabase(file) THEN refused
        ELSE IF S3_isAvailable
        THEN IF putOk
             THEN UploadOutcome("ok", id,
                      Append(attachments, record("S3", key, "email-attachments", <<>>)),
                      [k \in DOMAIN objects \cup {key} |->
                          IF k = key THEN file.buffer ELSE objects[k]])
             ELSE UploadOutcome("INTERNAL_SERVER_ERROR", 0, attachments, objects)
        ELSE UploadOutcome("ok", id,
                 Append(attachments,
                        record("DATABASE", 0, "database", toBase64(file.buffer))),
                 objects)

\* AttachmentService.getAttachmentContent; getOk: the GetObject call succeeds
AttachmentService_getAttachmentContent(attachmentId, available, getOk) ==
    LET attachment == attachments[attachmentId]
    IN  IF ~foundByIdString(attachmentId) THEN [ret |-> "NOT_FOUND", content |-> <<>>]
        ELSE IF attachment.storageType = "DATABASE" /\ attachment.fileContent # <<>>
        THEN [ret |-> "ok", content |-> fromBase64(attachment.fileContent)]
        ELSE IF available
        THEN IF getOk /\ attachment.s3Key \in DOMAIN objects
             THEN [ret |-> "ok", content |-> objects[attachment.s3Key]]
             ELSE [ret |-> "Error", content |-> <<>>]
        ELSE [ret |-> "NOT_FOUND", content |-> <<>>]

ByteVals == {77, 255}
Buffers == UNION {[1..n -> ByteVals] : n \in 0..MaxBytes}
LargeSizes == {MAX_DB_FILE_SIZE, MAX_DB_FILE_SIZE + 1}

File(present, buffer, originalname, size) ==
    [present |-> present, buffer |-> buffer, originalname |-> originalname,
     size |-> size]

NoFile == File(FALSE, <<>>, "", 0)

Files ==
    {File(TRUE, b, "a.txt", Len(b)) : b \in Buffers}
        \cup {File(TRUE, b, "", Len(b)) : b \in {<<>>, <<255>>}}
        \cup {File(TRUE, <<77, 255>>, "a.txt", s) : s \in LargeSizes}
        \cup {NoFile}

InitAttach ==
    /\ accounts = [a \in Accounts |-> NoCredential]
    /\ emails = <<>>
    /\ nextId = 1
    /\ now = 0
    /\ outbox = {}
    /\ last = Idle
    /\ prev = <<>>
    /\ calls = NoCalls
    /\ attachments = <<>>
    /\ objects = <<>>
    /\ s3Configured \in BOOLEAN
    /\ InitAuthIdle

attachOnly ==
    noAuth /\ UNCHANGED <<accounts, emails, nextId, now, outbox, prev, calls>>

\* POST attachments/upload
Upload ==
    \E file \in Files, putOk \in BOOLEAN :
        LET res == AttachmentService_uploadAttachment(file, putOk)
        IN  /\ Len(attachments) < MaxAttachments
            /\ putOk \/ S3_isAvailable
            /\ attachments' = res.attachments
            /\ objects' = res.objects
            /\ last' = Result("uploadAttachment", "none", res.id, res.ret,
                              [file |-> file, content |-> <<>>])
            /\ UNCHANGED s3Configured
            /\ attachOnly

\* the content of an attachment is fetched (for sending it with a message)
GetContent ==
    \E id \in (1..MaxAttachments) \cup GmailIds, getOk \in BOOLEAN :
        LET res == AttachmentService_getAttachmentContent(id, S3_isAvailable, getOk)
        IN  /\ last' = Result("getAttachmentContent", "none", id, res.ret,
                              [file |-> NoFile, content |-> res.content])
            /\ UNCHANGED <<attachments, objects, s3Configured>>
            /\ attachOnly

\* the process is restarted with or without the S3 credentials in its
\* environment
Restart ==
    /\ s3Configured' \in BOOLEAN \ {s3Configured}
    /\ UNCHANGED <<attachments, objects, last>>
    /\ attachOnly

NextAttach == Upload \/ GetContent \/ Restart

SpecAttach == InitAttach /\ [][NextAttach]_vars

\* C16: uploadAttachment fails with BadRequest, and creates neither an
\* attachment record nor a storage object, when the content is empty, when
\* the filename is empty, or when object storage is unavailable and the size
\* is above the inline cap of 10 MB.
C16_UploadRefused ==
    [][(/\ last'.op = "uploadAttachment"
        /\ last' # last
        /\ \/ Len(last'.val.file.buffer) = 0
           \/ last'.val.file.originalname = ""
           \/ ~s3Configured /\ last'.val.file.size > 10485760)
           => /\ last'.status = "BadRequest"
              /\ attachments' = attachments
              /\ objects' = objects]_vars

\* an upload of more than 10 MB has been refused while S3 is not configured
C16_TooLargeRefused ==
    /\ last.op = "uploadAttachment"
    /\ last.status = "BadRequest"
    /\ ~s3Configured
    /\ Len(last.val.file.buffer) > 0
    /\ last.val.file.originalname # ""
    /\ last.val.file.size = 10485761
    /\ attachments = <<>>
    /\ objects = <<>>

\* the attachment is stored inline
Inline(id) == foundByIdString(id) /\ attachments[id].storageType = "DATABASE"

\* C17: an upload made while object storage is unavailable, of a named file
\* with non-empty content within the inline size limit, succeeds and records
\* the content inline; from then on the record's content, storage type and
\* keys are never changed (only its link to a message is), and
\* getAttachmentContent for the returned id yields exactly the uploaded
\* bytes whether or not object storage is available at retrieval.
C17_RoundTrip ==
    /\ [][(/\ last'.op = "uploadAttachment"
           /\ last' # last
           /\ ~s3Configured
           /\ last'.val.file.originalname # ""
           /\ Len(last'.val.file.buffer) > 0
           /\ last'.val.file.size <= 10485760)
              => /\ last'.status = "ok"
                 /\ objects' = objects
                 /\ DOMAIN attachments' = DOMAIN attachments \cup {last'.id}
                 /\ last'.id \notin DOMAIN attachments
                 /\ Inline(last.id)'
                 /\ attachments'[last'.id].fileContent # <<>>
                 /\ \A available, getOk \in BOOLEAN :
                        AttachmentService_getAttachmentContent(
                            last.id, available, getOk)'
                        = [ret |-> "ok", content |-> last'.val.file.buffer]]_vars
    /\ [][\A id \in DOMAIN attachments :
              /\ id \in DOMAIN attachments'
              /\ [attachments'[id] EXCEPT !.emailId = NoEmailId]
                 = [attachments[id] EXCEPT !.emailId = NoEmailId]]_vars
    /\ [][(/\ last'.op = "getAttachmentContent"
           /\ last' # last
           /\ Inline(last'.id))
              => /\ last'.status = "ok"
                 /\ \A available, getOk \in BOOLEAN :
                        AttachmentService_getAttachmentContent(
                            last.id, available, getOk)'
                        = [ret |-> "ok", content |-> last'.val.content]]_vars

\* two bytes uploaded while S3 was not configured have been fetched, intact,
\* after a restart with S3 configured
C17_FetchedAfterRestart ==
    /\ last.op = "getAttachmentContent"
    /\ last.status = "ok"
    /\ s3Configured
    /\ Inline(last.id)
    /\ last.val.content = <<77, 255>>
    /\ attachments[last.id].fileContent = <<19, 31, 60, 64>>

----------------------------------------------------------------------------
(* Bulk operations of EmailActionsService on the local provider.  A bulk   *)
(* request walks its id list, awaiting the provider once per id: each      *)
(* iteration is a step, and the request returns with the last one.  While  *)
(* it runs, last holds the ids still to do and the count so far.           *)

MaxBulk == 2

BulkMessages ==
    {[NewEmail(a, Email("u2"), <<Email(a)>>, <<>>, "Hi", "Hello", FALSE, f, 1, {})
         EXCEPT !.isStarred = s] :
        a \in Accounts, f \in {"inbox", "trash"}, s \in BOOLEAN}

IdLists == UNION {[1..n -> EmailIds] : n \in 0..MaxBulk}

\* the account asking; the stored messages are its own or the other account's
BulkCallers == {"u1"}

InitBulk ==
    /\ accounts = [a \in Accounts |-> NoCredential]
    /\ \E n \in 0..MaxEmails : emails \in [1..n -> BulkMessages]
    /\ nextId = MaxEmails + 1
    /\ now = 1
    /\ outbox = {}
    /\ last = Idle
    /\ prev = <<>>
    /\ calls = NoCalls
    /\ attachments = <<>>
    /\ objects = <<>>
    /\ s3Configured = FALSE
    /\ InitAuthIdle

Bulk(op, userId, ids, flag, count) ==
    Result(op, userId, 0, IF ids = <<>> THEN "ok" ELSE "running",
           [ids |-> ids, flag |-> flag, count |-> count])

\* the request arrives: the provider is resolved, the count starts at 0
BulkStart(op, userId, emailIds, flag) ==
    /\ last = Idle
    /\ getProvider(userId) = "database"
    /\ last' = Bulk(op, userId, emailIds, flag, 0)
    /\ prev' = emails
    /\ UNCHANGED <<accounts, emails, nextId, now, outbox>>
    /\ mailOnly

\* one iteration of the loop: the store after it and whether it counted
BulkIteration(op, store, counted) ==
    /\ last.op = op
    /\ last.status = "running"
    /\ emails' = store
    /\ last' = Bulk(op, last.user, Tail(last.val.ids), last.val.flag,
                    last.val.count + (IF counted THEN 1 ELSE 0))
    /\ UNCHANGED <<accounts, nextId, now, outbox, prev>>
    /\ mailOnly

\* bulkDelete: counts the ids for which deleteEmail returned true
EmailActionsService_bulkDelete_step ==
    LET r == Database_deleteEmail(last.user, Head(last.val.ids))
    IN  BulkIteration("bulkDelete", r.emails, r.ret = "true")

\* bulkToggleStar: reads the message (which marks it read), toggles when the
\* flag differs from the wanted one, counts every message it could read
EmailActionsService_bulkToggleStar_step ==
    LET emailId == Head(last.val.ids)
        current == Database_getEmailById(last.user, emailId)
        toggled == Database_toggleStar(last.user, emailId)
    IN  /\ last.op = "bulkToggleStar"
        /\ last.status = "running"
        /\ IF current.ret = "null"
           THEN BulkIteration("bulkToggleStar", emails, FALSE)
           ELSE IF current.val.isStarred # last.val.flag
           THEN BulkIteration("bulkToggleStar",
                    [current.emails EXCEPT
                        ![emailId].isStarred = toggled.val.isStarred],
                    TRUE)
           ELSE BulkIteration("bulkToggleStar", current.emails, TRUE)

\* bulkMarkAsRead: awaits markAsRead and counts, whatever it returned
EmailActionsService_bulkMarkAsRead_step ==
    LET r == Database_markAsRead(last.user, Head(last.val.ids), last.val.flag)
    IN  BulkIteration("bulkMarkAsRead", r.emails, TRUE)

BulkDeleteStart ==
    \E a \in BulkCallers, ids \in IdLists : BulkStart("bulkDelete", a, ids, FALSE)
BulkStarStart ==
    \E a \in BulkCallers, ids \in IdLists, star \in BOOLEAN :
        BulkStart("bulkToggleStar", a, ids, star)
BulkReadStart ==
    \E a \in BulkCallers, ids \in IdLists, isRead \in BOOLEAN :
        BulkStart("bulkMarkAsRead", a, ids, isRead)

\* ModifyEmailDto: isRead and isStarred are optional booleans
ModifyEmailDto(hasIsRead, isRead, hasIsStarred, isStarred) ==
    [hasIsRead |-> hasIsRead, isRead |-> isRead,
     hasIsStarred |-> hasIsStarred, isStarred |-> isStarred]

ModifyData ==
    {d \in [hasIsRead : BOOLEAN, isRead : BOOLEAN,
            hasIsStarred : BOOLEAN, isStarred : BOOLEAN] :
        /\ d.isRead => d.hasIsRead
        /\ d.isStarred => d.hasIsStarred}

\* EmailActionsService.modifyEmail on the local provider: markAsRead when
\* isRead is given; when isStarred is given, getEmailById (which marks the
\* message read) and toggleStar if the flag it returned differs
EmailActionsService_modifyEmail_store(userId, emailId, data) ==
    LET marked == IF data.hasIsRead
                  THEN Database_markAsRead(userId, emailId, data.isRead).emails
                  ELSE emails
        current == Database_getEmailById(userId, emailId)
        opened == IF current.ret = "null" THEN marked
                  ELSE [marked EXCEPT ![emailId] = markReadOnOpen(marked[emailId])]
    IN  IF ~data.hasIsStarred THEN marked
        ELSE IF current.ret = "null" THEN marked
        ELSE IF current.val.isStarred # data.isStarred
        THEN [opened EXCEPT ![emailId].isStarred = newStarredStatus(opened[emailId])]
        ELSE opened

EmailActionsService_modifyEmail ==
    \E userId \in BulkCallers, emailId \in EmailIds, data \in ModifyData :
        /\ last = Idle
        /\ getProvider(userId) = "database"
        /\ emails' = EmailActionsService_modifyEmail_store(userId, emailId, data)
        /\ last' = Result("modifyEmail", userId, emailId, "ok", data)
        /\ prev' = emails
        /\ UNCHANGED <<accounts, nextId, now, outbox>>
        /\ mailOnly

NextBulk ==
    \/ BulkDeleteStart \/ BulkStarStart \/ BulkReadStart
    \/ EmailActionsService_bulkDelete_step
    \/ EmailActionsService_bulkToggleStar_step
    \/ EmailActionsService_bulkMarkAsRead_step
    \/ EmailActionsService_modifyEmail

SpecBulk == InitBulk /\ [][NextBulk]_vars

BulkOps == {"bulkDelete", "bulkToggleStar", "bulkMarkAsRead"}

\* the provider's operation for the id at the head of the list succeeds
PerIdSucceeds ==
    LET emailId == Head(last.val.ids)
    IN  CASE last.op = "bulkDelete" ->
                 Database_deleteEmail(last.user, emailId).ret = "true"
          [] last.op = "bulkMarkAsRead" ->
                 Database_markAsRead(last.user, emailId, last.val.flag).ret = "true"
          [] last.op = "bulkToggleStar" ->
                 /\ Database_getEmailById(last.user, emailId).ret = "detail"
                 /\ \/ emails[emailId].isStarred = last.val.flag
                    \/ Database_toggleStar(last.user, emailId).ret = "ok"

\* C18: a bulk delete, star or mark-read handles its ids one after the
\* other; whatever happens to an id, the next ids are handled and the call
\* does not fail; the count grows by one exactly for the ids whose
\* operation succeeded, so that the reported count is the number of those.
C18_BulkCounts ==
    [][(last.op \in BulkOps /\ last.status = "running" /\ last' # last)
           => /\ last'.op = last.op
              /\ last'.status \in {"running", "ok"}
              /\ last'.val.ids = Tail(last.val.ids)
              /\ last'.val.count =
                     last.val.count + (IF PerIdSucceeds THEN 1 ELSE 0)]_vars

\* the same for bulk delete and bulk star alone
BulkDeleteAndStarCounts ==
    [][(last.op \in {"bulkDelete", "bulkToggleStar"}
           /\ last.status = "running" /\ last' # last)
           => /\ last'.op = last.op
              /\ last'.status \in {"running", "ok"}
              /\ last'.val.ids = Tail(last.val.ids)
              /\ last'.val.count =
                     last.val.count + (IF PerIdSucceeds THEN 1 ELSE 0)]_vars

\* caller c has a toggleStar on message i past its read and before its write
ToggleWriting(c, i) ==
    /\ calls[c].op = "toggleStar"
    /\ calls[c].id = i
    /\ calls[c].pc = "toggleStar.write"

\* both callers have completed a toggleStar on the same message
BothToggled ==
    /\ \A c \in Callers : /\ calls[c].op = "toggleStar"
                          /\ calls[c].pc = "done"
                          /\ calls[c].status = "ok"
    /\ calls["c1"].id = calls["c2"].id

\* C19: concurrent toggleStar calls on a local message are not coordinated:
\* every call writes, and reports, the negation of the flag it read, and is
\* never kept from writing; the stored flag changes only by such a write and
\* is then the value of the call that wrote; when two calls on the same
\* message have both read the same value they report the same isStarred and
\* the flag ends as the negation of that value, toggled once.
C19_LastWriteWins ==
    /\ [](\A c \in Callers :
              calls[c].pc = "toggleStar.write" => ENABLED EndToggleStar(c))
    /\ [][\A c \in Callers :
              (calls[c].pc = "toggleStar.write" /\ calls'[c].pc # "toggleStar.write")
                  => /\ calls'[c].pc = "done"
                     /\ calls'[c].status = "ok"
                     /\ calls'[c].isStarred = ~calls[c].sawStarred
                     /\ calls[c].id \in DOMAIN emails
                            => emails'[calls[c].id].isStarred = ~calls[c].sawStarred]_vars
    /\ [][\A i \in DOMAIN emails \cap DOMAIN emails' :
              emails'[i].isStarred # emails[i].isStarred
                  => \E c \in Callers : /\ ToggleWriting(c, i)
                                        /\ calls'[c].pc = "done"
                                        /\ emails'[i].isStarred = calls'[c].isStarred]_vars
    /\ []((BothToggled /\ calls["c1"].sawStarred = calls["c2"].sawStarred)
              => /\ calls["c1"].isStarred = calls["c2"].isStarred
                 /\ calls["c1"].id \in DOMAIN emails
                        => emails[calls["c1"].id].isStarred = ~calls["c1"].sawStarred)

\* both calls read the flag unset before either wrote: both report starred
\* and the message is starred
C19_BothReadFirst ==
    /\ BothToggled
    /\ ~calls["c1"].sawStarred
    /\ ~calls["c2"].sawStarred
    /\ calls["c1"].isStarred
    /\ calls["c2"].isStarred
    /\ emails[calls["c1"].id].isStarred

MutateOps ==
    {"EmailActionsService.markAsRead", "EmailActionsService.toggleStar",
     "EmailActionsService.deleteEmail", "moveToFolder"}

\* the local provider refuses the operation of the last request (for an id
\* that is not valid its answer does not depend on the store)
ProviderRefuses ==
    CASE last.op = "EmailActionsService.markAsRead" ->
             Database_markAsRead(last.user, last.id, last.val.isRead).ret = "false"
      [] last.op = "EmailActionsService.toggleStar" ->
             Database_toggleStar(last.user, last.id).ret = "BAD_REQUEST"
      [] last.op = "EmailActionsService.deleteEmail" ->
             Database_deleteEmail(last.user, last.id).ret = "false"
      [] last.op = "moveToFolder" ->
             Database_moveToFolder(last.user, last.id, last.val.folder).ret = "false"

\* C20: for an id that is not a valid local identifier, markAsRead,
\* toggleStar, deleteEmail and moveToFolder of the local provider refuse
\* (false or BadRequest) and leave the store as it was, and the caller is
\* told of the refusal, not of a success.
C20_InvalidIdRejected ==
    (/\ last.op \in MutateOps
     /\ getProvider(last.user) = "database"
     /\ ~isValidObjectId(last.id))
        => /\ emails = prev
           /\ ProviderRefuses
           /\ last.status # "ok"

\* the same without the report to the caller
InvalidIdLeavesStore ==
    (/\ last.op \in MutateOps
     /\ getProvider(last.user) = "database"
     /\ ~isValidObjectId(last.id))
        => /\ emails = prev
           /\ ProviderRefuses
           /\ last.op # "EmailActionsService.markAsRead" => last.status # "ok"

----------------------------------------------------------------------------
(* Reading and marking through the Gmail API: u1 may hold a Google          *)
(* credential; messages.get and messages.modify succeed or fail with an     *)
(* upstream status.                                                          *)

RemoteSend == now < MaxCompose /\ \E u \in Accounts, d \in LifecycleData :
                  EmailService_sendEmail(u, d, "ok", FALSE, "none")
RemoteOpen == now < MaxCompose /\ \E u \in Accounts, id \in EmailIds, api \in ApiOutcomes :
                  /\ ApiCalled(u, api, DefaultRemote)
                  /\ InboxService_getEmailById(u, id, api)
RemoteLegacyOpen == now < MaxCompose /\ \E u \in Accounts, id \in EmailIds, api \in ApiOutcomes :
                        /\ ApiCalled(u, api, DefaultRemote)
                        /\ EmailService_getEmailById(u, id, api)
RemoteMarkRead == now < MaxCompose /\ \E u \in Accounts, id \in EmailIds, v \in BOOLEAN,
                      api \in ApiOutcomes :
                      /\ ApiCalled(u, api, DefaultRemote)
                      /\ EmailActionsService_markAsRead(u, id, v, api)

\* mapFolderToGmailLabel: mapping[folder], undefined for a name not in it
mapFolderToGmailLabel(folder) ==
    CASE folder = "inbox" -> "INBOX"
      [] folder = "sent" -> "SENT"
      [] folder = "drafts" -> "DRAFT"
      [] folder = "trash" -> "TRASH"
      [] folder = "starred" -> "STARRED"
      [] OTHER -> "undefined"

\* the label EmailService.getEmailsByFolder picks: INBOX unless told otherwise
EmailService_labelId(folder) ==
    IF folder = "sent" THEN "SENT"
    ELSE IF folder = "drafts" THEN "DRAFT"
    ELSE IF folder = "trash" THEN "TRASH"
    ELSE IF folder = "starred" THEN "STARRED"
    ELSE IF folder = "archive" THEN "undefined"
    ELSE "INBOX"

\* labelIds: labelId ? [labelId] : undefined (no label filter)
labelIds(labelId) == IF labelId = "undefined" THEN {} ELSE {labelId}

\* folder names a request may carry: the six folders and names outside them
FolderNames == Folders \cup {"spam", "Inbox"}

\* gmail.users.messages.list for the folder: the request that goes out
Gmail_list(op, userId, folder, labelId, api) ==
    /\ now < MaxCompose
    /\ getGmailClient(userId)
    /\ now' = now + 1
    /\ prev' = emails
    /\ outbox' = {[api |-> "messages.list", labelIds |-> labelIds(labelId)]}
    /\ last' = Result(op, userId, 0, IF api = "ok" THEN "ok" ELSE "UpstreamError",
                      [folder |-> folder, labelIds |-> labelIds(labelId)])
    /\ UNCHANGED <<accounts, emails, nextId>>
    /\ mailOnly

RemoteList == \E u \in Accounts, f \in FolderNames, api \in SendOutcomes :
                  Gmail_list("Gmail.getEmailsByFolder", u, f, mapFolderToGmailLabel(f), api)
RemoteLegacyList == \E u \in Accounts, f \in FolderNames :
                        Gmail_list("EmailService.getEmailsByFolder", u, f,
                                   EmailService_labelId(f), "ok")

NextRemote ==
    \/ RemoteSend \/ RemoteOpen \/ RemoteLegacyOpen \/ RemoteMarkRead
    \/ RemoteList \/ RemoteLegacyList

SpecRemote == InitCompose /\ [][NextRemote]_vars

RemoteOps ==
    {"InboxService.getEmailById", "EmailService.getEmailById",
     "EmailActionsService.markAsRead"}

\* C21: on the remote path an upstream 404 reaches the caller as a not-found
\* error, and any other upstream failure as a provider error with the
\* upstream status: never as not-found, never as success.
C21_UpstreamErrors ==
    (last.op \in RemoteOps /\ getGmailClient(last.user))
        => /\ last.val.api = "404" => last.status = "NOT_FOUND"
           /\ last.val.api \notin {"ok", "404"}
                  => /\ last.status = "UpstreamError"
                     /\ last.val.upstream = last.val.api

\* the same for EmailService.getEmailById on an id that is no local id
RemoteIdThroughService ==
    (/\ last.op = "EmailService.getEmailById"
     /\ getGmailClient(last.user)
     /\ ~isValidObjectId(last.id))
        => /\ last.val.api = "404" => last.status = "NOT_FOUND"
           /\ last.val.api \notin {"ok", "404"}
                  => /\ last.status = "UpstreamError"
                     /\ last.val.upstream = last.val.api

RemoteListOps == {"Gmail.getEmailsByFolder", "EmailService.getEmailsByFolder"}

\* the upstream label of a folder that has one
UpstreamLabel(folder) ==
    CASE folder = "inbox" -> "INBOX"
      [] folder = "sent" -> "SENT"
      [] folder = "drafts" -> "DRAFT"
      [] folder = "trash" -> "TRASH"
      [] folder = "starred" -> "STARRED"

\* C22: listing a folder through the Gmail API asks for the folder's label
\* for inbox, sent, drafts, trash and starred, for no label for archive, and
\* for the inbox label for every other folder name.
C22_FolderToLabel ==
    last.op \in RemoteListOps =>
        last.val.labelIds =
            (IF last.val.folder = "archive" THEN {}
             ELSE IF last.val.folder \in {"inbox", "sent", "drafts", "trash", "starred"}
             THEN {UpstreamLabel(last.val.folder)}
             ELSE {"INBOX"})

\* the same for the six folders, and for every name through EmailService
KnownFolderToLabel ==
    (last.op \in RemoteListOps
        /\ (last.val.folder \in Folders \/ last.op = "EmailService.getEmailsByFolder"))
        => last.val.labelIds =
            (IF last.val.folder = "archive" THEN {}
             ELSE IF last.val.folder \in {"inbox", "sent", "drafts", "trash", "starred"}
             THEN {UpstreamLabel(last.val.folder)}
             ELSE {"INBOX"})

----------------------------------------------------------------------------
\* Linking: attachments are uploaded, then named by one linking request or
\* by one message sent from the local store.

\* attachment ids a request may name: stored ones and one that is no ObjectId
AttachmentIdsNamed == (1..MaxAttachments) \cup GmailIds

\* POST attachments/upload with a one-byte file
UploadOne ==
    \E putOk \in BOOLEAN :
        LET res == AttachmentService_uploadAttachment(
                       File(TRUE, <<77>>, "a.txt", 1), putOk)
        IN  /\ Len(attachments) < MaxAttachments
            /\ putOk \/ S3_isAvailable
            /\ attachments' = res.attachments
            /\ objects' = res.objects
            /\ last' = Result("uploadAttachment", "none", res.id, res.ret,
                              [file |-> NoFile, content |-> <<>>])
            /\ UNCHANGED s3Configured
            /\ attachOnly

\* AttachmentService.linkAttachmentsToEmail as a request of its own; fails:
\* the ids whose updateOne throws
LinkAttachments ==
    \E n \in 0..2 : \E ids \in [1..n -> AttachmentIdsNamed] :
        \E emailId \in 1..MaxEmails, fails \in SUBSET {ids[k] : k \in 1..n} :
            LET res == linkAttachmentsToEmail(attachments, ids, emailId, fails)
            IN  /\ last.op \in {"none", "uploadAttachment"}
                /\ attachments' = res.attachments
                /\ last' = Result("linkAttachmentsToEmail", "none", emailId, res.ret,
                                  [ids |-> ids, fails |-> fails])
                /\ UNCHANGED <<objects, s3Configured>>
                /\ attachOnly

\* a local account sends a message carrying uploaded attachments
SendAttached ==
    \E u \in Accounts, to \in {Email("u2"), ExternalAddress},
       atts \in SUBSET DOMAIN attachments :
        /\ last.op \in {"none", "uploadAttachment"}
        /\ atts # {}
        /\ EmailService_sendEmail(u, SendData(to, <<>>, "Hi", "Hello", atts),
                                  "ok", FALSE, "none")

NextLink == UploadOne \/ LinkAttachments \/ SendAttached

SpecLink == InitAttach /\ [][NextLink]_vars

\* C23: linkAttachmentsToEmail is best-effort per id: every stored
\* attachment of the list whose own update does not fail is linked to the
\* message, whatever happens to the other ids of the list.
C23_LinkIsolated ==
    [][(last'.op = "linkAttachmentsToEmail" /\ last' # last)
           => \A k \in DOMAIN last'.val.ids :
                  LET a == last'.val.ids[k]
                  IN  (a \notin last'.val.fails /\ a \in DOMAIN attachments)
                          => attachments'[a].emailId = last'.id]_vars

\* the same when no update fails
LinkWithoutFailure ==
    [][(last'.op = "linkAttachmentsToEmail" /\ last' # last /\ last'.val.fails = {})
           => /\ last'.status = "ok"
              /\ \A k \in DOMAIN last'.val.ids :
                     LET a == last'.val.ids[k]
                     IN  a \in DOMAIN attachments
                             => attachments'[a].emailId = last'.id]_vars

\* C24: after a local send with attachments to a known account, looking up
\* the attachments of the sent copy and of the inbox copy by the copy's id
\* gives, for each of the two, every supplied attachment.
C24_LinkedToBothCopies ==
    (/\ last.op = "EmailService.sendEmail"
     /\ last.status = "ok"
     /\ last.val.via = "local"
     /\ last.val.data.attachments # {}
     /\ findAccountByEmail(last.val.data.to) # {})
        => /\ Cardinality(Added) = 2
           /\ \A i \in Added : last.val.data.attachments \subseteq getAttachmentsByEmailId(i)

\* the same for the copy written last (the inbox copy, or the sent copy of a
\* message to an address outside)
LinkedToLastCopy ==
    (/\ last.op = "EmailService.sendEmail"
     /\ last.status = "ok"
     /\ last.val.via = "local"
     /\ last.val.data.attachments # {})
        => \E i \in Added :
               /\ \A j \in Added : j <= i
               /\ last.val.data.attachments = getAttachmentsByEmailId(i)

\* the request just answered repeats the one answered before it, on a
\* message of the caller's in the local store
SameCallAgain ==
    /\ last'.op = last.op /\ last'.user = last.user /\ last'.id = last.id
    /\ last'.val = last.val
    /\ last.status = "ok" /\ last'.status = "ok"
    /\ ~getGmailClient(last.user)
    /\ last.id \in DOMAIN emails /\ emails[last.id].accountId = last.user

MarkOps == {"EmailActionsService.markAsRead", "EmailService.markAsRead"}

\* C25: markAsRead and moveToFolder are idempotent on a local message of the
\* caller's: the same call applied a second time leaves the message exactly
\* as the first application left it, read timestamp included.
C25_Idempotent ==
    [][(SameCallAgain /\ last.op \in MarkOps \cup {"moveToFolder"})
           => emails' = emails]_vars

\* moveToFolder, EmailService.markAsRead and marking unread are idempotent;
\* a repeated marking as read through the provider changes the read
\* timestamp at most
IdempotentButReadAt ==
    [][(SameCallAgain /\ last.op \in MarkOps \cup {"moveToFolder"})
           => /\ (\/ last.op # "EmailActionsService.markAsRead"
                  \/ ~last.val.isRead) => emails' = emails
              /\ emails' = [emails EXCEPT ![last.id].readAt = emails'[last.id].readAt]]_vars

\* C26: after modifyEmail succeeded on a local message of the caller's, the
\* read flag is data.isRead when given and as before otherwise, and the
\* starred flag is data.isStarred when given and as before otherwise.
C26_ModifyFlags ==
    (last.op = "modifyEmail" /\ last.status = "ok" /\ OnOwn)
        => /\ emails[last.id].isRead
                  = (IF last.val.hasIsRead THEN last.val.isRead ELSE Target.isRead)
           /\ emails[last.id].isStarred
                  = (IF last.val.hasIsStarred THEN last.val.isStarred
                     ELSE Target.isStarred)

\* the starred flag always ends as asked, the read flag does when isStarred
\* is not given, and with isStarred given the message ends read
ModifyFlagsButReadOnStar ==
    (last.op = "modifyEmail" /\ last.status = "ok" /\ OnOwn)
        => /\ emails[last.id].isStarred
                  = (IF last.val.hasIsStarred THEN last.val.isStarred
                     ELSE Target.isStarred)
           /\ ~last.val.hasIsStarred
                  => emails[last.id].isRead
                         = (IF last.val.hasIsRead THEN last.val.isRead
                            ELSE Target.isRead)
           /\ last.val.hasIsStarred => emails[last.id].isRead
           /\ RestKept

\* one iteration of bulkToggleStar has just run on the id at the head
StarStep ==
    /\ last.op = "bulkToggleStar" /\ last.status = "running"
    /\ last'.op = "bulkToggleStar" /\ last'.val.ids = Tail(last.val.ids)

\* every listed message of the caller's gets the wanted flag, and no other
\* message's flag is touched
StarStepSets ==
    [][StarStep
          => LET emailId == Head(last.val.ids)
             IN  /\ DOMAIN emails' = DOMAIN emails
                 /\ \A i \in DOMAIN emails :
                        emails'[i].isStarred =
                            IF i = emailId /\ emails[i].accountId = last.user
                            THEN last.val.flag ELSE emails[i].isStarred]_vars

\* C27: bulkToggleStar changes only the starred flag: every listed local
\* message of the caller's ends with the flag `star`, and once it has
\* returned the read flag, read timestamp and folder of every message are
\* what they were before the call.
C27_OnlyStarChanges ==
    /\ StarStepSets
    /\ [](last.op = "bulkToggleStar" /\ last.status = "ok"
             => \A i \in DOMAIN prev :
                    /\ i \in DOMAIN emails
                    /\ emails[i].isRead = prev[i].isRead
                    /\ emails[i].readAt = prev[i].readAt
                    /\ emails[i].folder = prev[i].folder)

\* the flag is set as asked, the folder and everything but the starred flag,
\* the read flag and the read timestamp are kept; a message is marked read
\* only if it is the caller's
StarSetsFolderKept ==
    /\ StarStepSets
    /\ [](last.op = "bulkToggleStar"
             => \A i \in DOMAIN prev :
                    /\ i \in DOMAIN emails
                    /\ [emails[i] EXCEPT !.isStarred = FALSE, !.isRead = FALSE,
                                         !.readAt = NoDate]
                       = [prev[i] EXCEPT !.isStarred = FALSE, !.isRead = FALSE,
                                         !.readAt = NoDate]
                    /\ prev[i].accountId # last.user => emails[i] = prev[i])

----------------------------------------------------------------------------
\* The folder listing of InboxController / InboxService: the provider's page,
\* filtered by the query's unread and starred parameters.

\* a JavaScript boolean-or-undefined as a string
JsBool(b) == IF b THEN "true" ELSE "false"

\* EmailFilters with search, from, startDate and endDate undefined
EmailFilters(unread, starred) == [unread |-> unread, starred |-> starred]

RECURSIVE Filter(_, _)
\* Array.prototype.filter over a page of ids; keep: the ids that pass
Filter(page, keep) ==
    IF page = <<>> THEN <<>>
    ELSE (IF Head(page) \in keep THEN <<Head(page)>> ELSE <<>>)
             \o Filter(Tail(page), keep)

\* the client-side filters of InboxService.getEmailsByFolder
filteredEmails(result, filters) ==
    LET unreadOk(i) == filters.unread # "undefined"
                           => JsBool(emails[i].isRead) # filters.unread
        starredOk(i) == filters.starred # "undefined"
                            => JsBool(emails[i].isStarred) = filters.starred
    IN  Filter(result.emails, {i \in DOMAIN emails : unreadOk(i) /\ starredOk(i)})

\* InboxService.getEmailsByFolder for an account of the local provider
InboxService_getEmailsByFolder(userId, folder, page, limit, filters) ==
    LET result == Database_getEmailsByFolder(userId, folder, page, limit)
        kept == filteredEmails(result, filters)
    IN  IF filters.unread # "undefined" \/ filters.starred # "undefined"
        THEN [result EXCEPT !.emails = kept, !.total = Len(kept),
                            !.totalPages = (Len(kept) + limit - 1) \div limit]
        ELSE result

\* a query parameter that may be absent
QueryFlags == {"absent", "true"}

InboxMessages ==
    {[NewEmail(a, Email("u2"), <<Email(a)>>, <<>>, "Hi", "Hello", r, "inbox", 1, {})
         EXCEPT !.isStarred = s, !.readAt = IF r THEN 1 ELSE NoDate] :
        a \in Accounts, r \in BOOLEAN, s \in BOOLEAN}

InitInbox ==
    /\ accounts = [a \in Accounts |-> NoCredential]
    /\ \E n \in 0..MaxListed : emails \in [1..n -> InboxMessages]
    /\ nextId = MaxListed + 1
    /\ now = 1
    /\ outbox = {}
    /\ last = Idle
    /\ prev = <<>>
    /\ calls = NoCalls
    /\ attachments = <<>>
    /\ objects = <<>>
    /\ s3Configured = FALSE
    /\ InitAuthIdle

\* GET emails/folder/:folder: unread and starred are compared with 'true'
InboxController_getEmailsByFolder ==
    \E a \in Accounts, folder \in {"inbox", "starred"}, page \in {1, 2},
       limit \in ListLimits, unread \in QueryFlags, starred \in QueryFlags :
        /\ getProvider(a) = "database"
        /\ Listing("InboxController.getEmailsByFolder", a, folder,
               [query |-> [unread |-> unread, starred |-> starred],
                provider |-> Database_getEmailsByFolder(a, folder, page, limit),
                answer |-> InboxService_getEmailsByFolder(a, folder, page, limit,
                               EmailFilters(JsBool(unread = "true"),
                                            JsBool(starred = "true")))])

NextInbox == InboxController_getEmailsByFolder

SpecInbox == InitInbox /\ [][NextInbox]_vars

\* C28: called with none of the query parameters search, from, unread,
\* starred, startDate and endDate, the folder listing returns exactly what
\* the provider's getEmailsByFolder returns for the same account, folder,
\* page and limit: the same emails, total and totalPages.
C28_NoFilterSameAsProvider ==
    (/\ last.op = "InboxController.getEmailsByFolder"
     /\ last.val.res.query.unread = "absent"
     /\ last.val.res.query.starred = "absent")
        => last.val.res.answer = last.val.res.provider

\* the listing answers the provider's page without the unread messages when
\* unread is not 'true' and without the read ones when it is, and likewise
\* for starred; total counts what is left on the page
ListingFiltersPage ==
    last.op = "InboxController.getEmailsByFolder"
        => LET r == last.val.res
               Shown == {r.answer.emails[k] : k \in DOMAIN r.answer.emails}
               Paged == {r.provider.emails[k] : k \in DOMAIN r.provider.emails}
           IN  /\ Shown = {i \in Paged :
                              /\ emails[i].isRead = (r.query.unread # "true")
                              /\ emails[i].isStarred = (r.query.starred = "true")}
               /\ r.answer.total = Cardinality(Shown)
               /\ r.answer.total = Len(r.answer.emails)

----------------------------------------------------------------------------
\* Sessions.  SpecAuth: one AuthService call at a time.  SpecSession: the
\* calls of two client sessions interleave.

\* the clients sign in as u1 or with an address of no account
LoginEmails == {Email("u1"), ExternalAddress}
JwtsPresented == {Jwt("u1", n) : n \in 1..MaxSerial}

Login ==
    \E s \in Sessions, email \in LoginEmails, passwordOk \in BOOLEAN :
        LoginBegin(s, email, passwordOk)
Refresh ==
    \E s \in Sessions, refreshToken \in 1..MaxSerial, rotateToken \in BOOLEAN :
        RefreshBegin(s, refreshToken, rotateToken)
Logout == \E s \in Sessions, token \in JwtsPresented : LogoutBegin(s, token)
Guard == \E token \in JwtsPresented : Guarded(token)

LoginStep == \E s \in Sessions : LoginSaveRefresh(s) \/ LoginSaveAccess(s)
RefreshStep ==
    \E s \in Sessions :
        \/ RefreshDeleteExpired(s)
        \/ RefreshSaveAccess(s)
        \/ RefreshDeleteOld(s)
        \/ RefreshSaveNew(s)
LogoutStep == \E s \in Sessions : LogoutDeleteAccess(s)

\* no call is in flight
Quiet == \A s \in Sessions : authCalls[s].pc = "idle"

NextAuth ==
    \/ Quiet /\ (Login \/ Refresh \/ Logout \/ Guard \/ Pass)
    \/ LoginStep \/ RefreshStep \/ LogoutStep

SpecAuth == Init /\ [][NextAuth]_vars

NextSession ==
    \/ Login \/ Refresh \/ Logout
    \/ Quiet /\ (Guard \/ Pass)
    \/ LoginStep \/ RefreshStep \/ LogoutStep

SpecSession == Init /\ [][NextSession]_vars

\* the refresh token would pass refreshToken's lookup and expiry check
AcceptedByRefresh(token) ==
    \E d \in refreshTokens : d.token = token /\ ~isExpired(d)

\* C29: once logout(account) has returned, no refresh token issued to the
\* account before the logout is accepted by refreshToken and no access token
\* of the account from a login or refresh that started before the logout is
\* accepted by JwtAuthGuard, in every interleaving of the calls.
C29_LogoutRevokes ==
    /\ \A token \in revoked.refresh : ~AcceptedByRefresh(token)
    /\ \A token \in revoked.access : ~canActivate(token)

\* the same when the logout has the store to itself: what it found is gone
LogoutAloneRevokes ==
    [][(Quiet' /\ last'.op = "logout" /\ (\E s \in Sessions : authCalls[s].op = "logout")
        /\ \A s \in Sessions : authCalls[s].op \in {"logout", "none"})
           => /\ \A d \in refreshTokens' : d.accountId # last'.user
              /\ \A r \in accessTokens' : r.accountId # last'.user]_vars

\* a refreshToken call has just returned
RefreshReturned ==
    /\ last'.op = "refreshToken"
    /\ \/ \E s \in Sessions : authCalls[s].op = "refreshToken"
                                  /\ authCalls'[s].pc = "idle"
       \/ authCalls' = authCalls /\ last'.val.tokenDoc = NoDoc

\* C30: refreshToken issues and records a new access token only when the
\* presented token is in the store, not past its expiry and of an existing
\* account; an unknown token is Unauthorized with nothing changed; an
\* expired one is Unauthorized and its record removed; with rotation the old
\* token is removed; and a token rejected as expired or rotated away never
\* succeeds later.
C30_RefreshValidity ==
    [][RefreshReturned
          => LET r == last'
                 b == r.val.before
                 known == {d \in b.refreshTokens : d.token = r.id}
                 expired == \E d \in known : r.val.at > d.expiresAt
                 valid == /\ known # {}
                          /\ ~expired
                          /\ \A d \in known : d.accountId \in Accounts
             IN  /\ (r.status = "ok") = valid
                 /\ known = {} =>
                        /\ r.status = "UNAUTHORIZED"
                        /\ refreshTokens' = b.refreshTokens
                        /\ accessTokens' = b.accessTokens
                 /\ (known # {} /\ expired) =>
                        /\ r.status = "UNAUTHORIZED"
                        /\ refreshTokens' = b.refreshTokens \ known
                        /\ accessTokens' = b.accessTokens
                        /\ \A d \in refreshTokens' : d.token # r.id
                 /\ valid =>
                        /\ ~r.val.wasRevoked
                        /\ \E d \in known :
                               /\ r.val.accessToken.userId = d.accountId
                               /\ accessTokens' = b.accessTokens \cup
                                      {AccessTokenDoc(r.val.accessToken, d.accountId)}
                        /\ \A a \in b.accessTokens : a.accessToken # r.val.accessToken
                        /\ ~r.val.rotate => refreshTokens' = b.refreshTokens
                        /\ r.val.rotate =>
                               /\ refreshTokens' \cap known = {}
                               /\ \A d \in refreshTokens' : d.token # r.id
                               /\ \E d \in refreshTokens' :
                                      /\ d.token = r.val.refreshToken
                                      /\ d.token # r.id
                                      /\ refreshTokens' = (b.refreshTokens \ known)
                                                              \cup {d}]_vars

\* a token that a rotation replaced has been presented again and refused
C30_RotatedThenRejected ==
    /\ last.op = "refreshToken"
    /\ last.status = "UNAUTHORIZED"
    /\ last.id \in revoked.rotated
    /\ last.val.wasRevoked

\* a token presented after its expiry has been refused and is gone
ExpiredRejected ==
    /\ last.op = "refreshToken"
    /\ last.status = "UNAUTHORIZED"
    /\ last.id \in revoked.expired
    /\ last.val.tokenDoc # NoDoc

\* an access token that a refreshToken call in flight during the logout of
\* its account saved afterwards passes the guard
StaleAccessTokenPasses ==
    /\ last.op = "refreshToken"
    /\ last.status = "ok"
    /\ last.val.accessToken \in revoked.access
    /\ canActivate(last.val.accessToken)

====
